---- MODULE Spec2Model ----
(***************************************************************************)
(* Model of the blog engine: the front-matter parser (editor package), the *)
(* entry model (entry package), the file layout (filer package) and the    *)
(* publishing commands of the command line (main package).                 *)
(*                                                                         *)
(* Strings are sequences of one-character strings, so that trimming,       *)
(* splitting and joining are computed as the Go code computes them.        *)
(***************************************************************************)
EXTENDS Integers, Sequences, FiniteSets, TLC

VARIABLES
    stream,      \* the lines the bufio.Scanner delivers to readFrontMatter
    fmRet,       \* what readFrontMatter returned for `stream`
    mdBody,      \* what readBody returned for the rest of `stream`
    fmIn,        \* the front-matter map handed to NewHtmlEntry
    entryRet,    \* what NewHtmlEntry did with `fmIn`
    fs,          \* the files on disk: path -> file
    cmd,         \* the command the running process was started with
    pc,          \* where the main goroutine of the process is
    drafts,      \* the map that filer.ListDrafts returned to the command
    tasks,       \* the Publish calls of the process: draft path -> progress
    wg,          \* the counter of PublishAll's sync.WaitGroup
    exitCode,    \* the exit code of the last process, NoExit while it runs
    runs,        \* how many processes have been started
    tieOrder,    \* how the sort.Slice of this build orders equal elements
    env,         \* the environment variables of the HTTP server process
    request,     \* the request the HTTP server handled last
    response     \* the response the HTTP server gave to `request`

fmVars == <<stream, fmRet, mdBody>>
entryVars == <<fmIn, entryRet>>
procVars == <<cmd, pc, drafts, tasks, wg, exitCode, runs>>
cliVars == <<fs, cmd, pc, drafts, tasks, wg, exitCode, runs, tieOrder>>
harnessVars == <<stream, fmRet, mdBody, fmIn, entryRet>>
serverVars == <<env, request, response>>

vars == <<stream, fmRet, mdBody, fmIn, entryRet, fs, cmd, pc, drafts, tasks, wg, exitCode, runs,
          tieOrder, env, request, response>>

-----------------------------------------------------------------------------
(* Bounds *)

\* longest line stream handed to the parser
MaxLines == 5

\* how many times the command line is run
MaxRuns == 2

-----------------------------------------------------------------------------
(* strings package *)

Sp == " "
Colon == ":"
Dash == "-"

RECURSIVE TrimLeft(_, _)
TrimLeft(s, c) ==
    IF s # <<>> /\ Head(s) = c THEN TrimLeft(Tail(s), c) ELSE s

RECURSIVE TrimRight(_, _)
TrimRight(s, c) ==
    IF s # <<>> /\ s[Len(s)] = c THEN TrimRight(SubSeq(s, 1, Len(s) - 1), c) ELSE s

\* strings.Trim(s, " ")
Trim(s, c) == TrimRight(TrimLeft(s, c), c)

\* strings.IndexByte: 0 when c does not occur in s
Index(s, c) ==
    IF \E i \in 1..Len(s) : s[i] = c
    THEN CHOOSE i \in 1..Len(s) : s[i] = c /\ \A j \in 1..(i - 1) : s[j] # c
    ELSE 0

\* a plausible slip: a text without c is split into the text and an empty part
SplitN2_padded(s, c) ==
    LET i == Index(s, c)
    IN IF i = 0 THEN <<s, <<>>>> ELSE <<SubSeq(s, 1, i - 1), SubSeq(s, i + 1, Len(s))>>

\* strings.SplitN(s, c, 2): one part when c does not occur, else two
SplitN2(s, c) ==
    LET i == Index(s, c)
    IN IF i = 0 THEN <<s>> ELSE <<SubSeq(s, 1, i - 1), SubSeq(s, i + 1, Len(s))>>

\* strings.Split(s, c): always at least one part
RECURSIVE Split(_, _)
Split(s, c) ==
    LET i == Index(s, c)
    IN IF i = 0 THEN <<s>>
       ELSE <<SubSeq(s, 1, i - 1)>> \o Split(SubSeq(s, i + 1, Len(s)), c)

\* strings.Join(parts, sep)
RECURSIVE Join(_, _)
Join(parts, sep) ==
    IF parts = <<>> THEN <<>>
    ELSE IF Len(parts) = 1 THEN parts[1]
    ELSE parts[1] \o sep \o Join(Tail(parts), sep)

HasSuffix(s, suf) ==
    Len(s) >= Len(suf) /\ SubSeq(s, Len(s) - Len(suf) + 1, Len(s)) = suf

HasPrefix(s, pre) ==
    Len(s) >= Len(pre) /\ SubSeq(s, 1, Len(pre)) = pre

TrimSuffix(s, suf) ==
    IF HasSuffix(s, suf) THEN SubSeq(s, 1, Len(s) - Len(suf)) ELSE s

TrimPrefix(s, pre) ==
    IF HasPrefix(s, pre) THEN SubSeq(s, Len(pre) + 1, Len(s)) ELSE s

\* strings.ReplaceAll for one-character old and new
ReplaceAll(s, old, new) == [i \in 1..Len(s) |-> IF s[i] = old THEN new ELSE s[i]]

Lower == <<"a","b","c","d","e","f","g","h","i","j","k","l","m",
           "n","o","p","q","r","s","t","u","v","w","x","y","z">>
Upper == <<"A","B","C","D","E","F","G","H","I","J","K","L","M",
           "N","O","P","Q","R","S","T","U","V","W","X","Y","Z">>

\* strings.ToUpper on a one-byte string
ToUpper(c) ==
    IF \E i \in 1..26 : Lower[i] = c
    THEN Upper[CHOOSE i \in 1..26 : Lower[i] = c]
    ELSE c

-----------------------------------------------------------------------------
(* errors and maps *)

Error(m) == [msg |-> m, arg |-> <<>>]
NoErr == Error("nil")

\* make(map[string]string)
EmptyMap == [k \in {} |-> <<>>]

\* m[k] = v
MapSet(m, k, v) == [x \in DOMAIN m \cup {k} |-> IF x = k THEN v ELSE m[x]]

-----------------------------------------------------------------------------
(* editor.readFrontMatter *)

Delimiter == <<"-", "-", "-">>

FMResult(fm, isNil, err, next) == [fm |-> fm, nil |-> isNil, err |-> err, next |-> next]

\* a plausible slip: a key already present keeps its first value
putKeyValue_keepFirst(frontMatter, keyvalue) ==
    IF keyvalue[1] \in DOMAIN frontMatter THEN frontMatter
    ELSE MapSet(frontMatter, keyvalue[1], Trim(keyvalue[2], Sp))

\* frontMatter[keyvalue[0]] = strings.Trim(keyvalue[1], " ")
putKeyValue(frontMatter, keyvalue) ==
    MapSet(frontMatter, keyvalue[1], Trim(keyvalue[2], Sp))

\* the for scanner.Scan() loop; i is the next line to be scanned
RECURSIVE scanFrontMatter(_, _, _, _)
scanFrontMatter(lines, i, openingDelimiterSeen, frontMatter) ==
    IF i > Len(lines)
    THEN FMResult(EmptyMap, TRUE, Error("no content found"), i)
    ELSE LET line == Trim(lines[i], Sp)
             keyvalue == SplitN2(line, Colon)
         IN IF line = Delimiter
            THEN IF openingDelimiterSeen
                 THEN FMResult(frontMatter, FALSE, NoErr, i + 1)
                 ELSE scanFrontMatter(lines, i + 1, TRUE, frontMatter)
            ELSE IF openingDelimiterSeen
                 THEN IF Len(keyvalue) # 2
                      THEN FMResult(EmptyMap, TRUE,
                                    Error("invalid front matter key-value pair"), i + 1)
                      ELSE scanFrontMatter(lines, i + 1, TRUE,
                               putKeyValue(frontMatter, keyvalue))
                 ELSE scanFrontMatter(lines, i + 1, FALSE, frontMatter)

\* a plausible slip: the end of the stream is taken as a delimiter line
readFrontMatter_endCloses(lines) == scanFrontMatter(Append(lines, Delimiter), 1, FALSE, EmptyMap)

\* editor.readFrontMatter
readFrontMatter(lines) == scanFrontMatter(lines, 1, FALSE, EmptyMap)

-----------------------------------------------------------------------------
(* time.Parse and Time.Format for the two layouts of the entry package *)

Digits == <<"0", "1", "2", "3", "4", "5", "6", "7", "8", "9">>

isDigit(c) == \E i \in 1..10 : Digits[i] = c

digitVal(c) == (CHOOSE i \in 1..10 : Digits[i] = c) - 1

\* atoi of a run of digits
RECURSIVE atoi(_)
atoi(s) == IF s = <<>> THEN 0 ELSE 10 * atoi(SubSeq(s, 1, Len(s) - 1)) + digitVal(s[Len(s)])

allDigits(s) == \A i \in 1..Len(s) : isDigit(s[i])

isLeap(year) == year % 4 = 0 /\ (year % 100 # 0 \/ year % 400 = 0)

daysIn(month, year) ==
    IF month = 2 THEN (IF isLeap(year) THEN 29 ELSE 28)
    ELSE IF month \in {4, 6, 9, 11} THEN 30 ELSE 31

longMonthNames == <<
    <<"J","a","n","u","a","r","y">>, <<"F","e","b","r","u","a","r","y">>,
    <<"M","a","r","c","h">>, <<"A","p","r","i","l">>, <<"M","a","y">>,
    <<"J","u","n","e">>, <<"J","u","l","y">>, <<"A","u","g","u","s","t">>,
    <<"S","e","p","t","e","m","b","e","r">>, <<"O","c","t","o","b","e","r">>,
    <<"N","o","v","e","m","b","e","r">>, <<"D","e","c","e","m","b","e","r">> >>

\* time.Parse("2006-01-02", value): four digits, '-', two digits, '-', two
\* digits and nothing else, the month and the day of the month in range
timeParseOK(value) ==
    /\ Len(value) = 10
    /\ allDigits(SubSeq(value, 1, 4))
    /\ value[5] = Dash
    /\ allDigits(SubSeq(value, 6, 7))
    /\ value[8] = Dash
    /\ allDigits(SubSeq(value, 9, 10))
    /\ atoi(SubSeq(value, 6, 7)) \in 1..12
    /\ atoi(SubSeq(value, 9, 10)) \in
           1..daysIn(atoi(SubSeq(value, 6, 7)), atoi(SubSeq(value, 1, 4)))

\* Time.Format("January 2, 2006") of a date that time.Parse accepted
timeFormat(value) ==
    LET day == SubSeq(value, 9, 10)
    IN longMonthNames[atoi(SubSeq(value, 6, 7))] \o <<" ">>
       \o (IF day[1] = "0" THEN <<day[2]>> ELSE day)
       \o <<",", " ">> \o SubSeq(value, 1, 4)

ParseError(value) == [msg |-> "parsing time", arg |-> value]

\* a plausible slip: the input text is handed on unformatted
FormatDate_unformatted(dateStr) ==
    IF timeParseOK(dateStr)
    THEN [val |-> dateStr, err |-> NoErr]
    ELSE [val |-> <<>>, err |-> ParseError(dateStr)]

\* entry.FormatDate
FormatDate(dateStr) ==
    IF timeParseOK(dateStr)
    THEN [val |-> timeFormat(dateStr), err |-> NoErr]
    ELSE [val |-> <<>>, err |-> ParseError(dateStr)]

-----------------------------------------------------------------------------
(* entry.NewHtmlEntry *)

KPublished == <<"p","u","b","l","i","s","h","e","d">>
KRevision == <<"r","e","v","i","s","i","o","n">>
KTitle == <<"t","i","t","l","e">>
KExcerpt == <<"e","x","c","e","r","p","t">>
KTags == <<"t","a","g","s">>

\* &HtmlEntry{...}; Body stays the zero value until the renderer has run
HtmlEntry(filename, title, published, revision, excerpt) ==
    [nil |-> FALSE, Filename |-> filename, Title |-> title,
     Published |-> published, Revision |-> revision, Excerpt |-> excerpt,
     Body |-> <<>>]

NilEntry == [nil |-> TRUE, Filename |-> <<>>, Title |-> <<>>,
             Published |-> <<>>, Revision |-> <<>>, Excerpt |-> <<>>, Body |-> <<>>]

\* w[0] of an empty segment is an index out of range: a run-time panic
parseTitlePanics(title) ==
    LET words == Split(title, Dash)
    IN \E i \in 1..Len(words) : words[i] = <<>>

\* strings.ToUpper(string(w[0])) + string(w[1:]) for every segment
capitalized(title) ==
    LET words == Split(title, Dash)
    IN [i \in 1..Len(words) |-> <<ToUpper(words[i][1])>> \o Tail(words[i])]

\* entry.parseTitle, for a title on which it does not panic
parseTitle(title) == Join(capitalized(title), <<Sp>>)

EntryResult(entry, err) == [panic |-> FALSE, entry |-> entry, err |-> err]
EntryPanic == [panic |-> TRUE, entry |-> NilEntry, err |-> NoErr]

\* a plausible slip: the presence of the four keys is checked before any date
NewHtmlEntry_presenceFirst(fm) ==
    LET published == FormatDate(fm[KPublished])
        revision == FormatDate(fm[KRevision])
    IN IF KPublished \notin DOMAIN fm
       THEN EntryResult(NilEntry, Error("Missing publish date in front matter"))
       ELSE IF KRevision \notin DOMAIN fm
       THEN EntryResult(NilEntry, Error("Missing revision date in front matter"))
       ELSE IF KTitle \notin DOMAIN fm
       THEN EntryResult(NilEntry, Error("Missing title in front matter"))
       ELSE IF published.err # NoErr
       THEN EntryResult(NilEntry, published.err)
       ELSE IF revision.err # NoErr
       THEN EntryResult(NilEntry, revision.err)
       ELSE IF parseTitlePanics(fm[KTitle])
       THEN EntryPanic
       ELSE IF KExcerpt \notin DOMAIN fm
       THEN EntryResult(NilEntry, Error("Missing excerpt in front matter"))
       ELSE EntryResult(HtmlEntry(fm[KTitle], parseTitle(fm[KTitle]),
                                  published.val,
                                  revision.val, fm[KExcerpt]), NoErr)

\* a plausible slip: the entry built so far is returned along with the error
NewHtmlEntry_partial(fm) ==
    LET published == FormatDate(fm[KPublished])
        revision == FormatDate(fm[KRevision])
    IN IF KPublished \notin DOMAIN fm
       THEN EntryResult(NilEntry, Error("Missing publish date in front matter"))
       ELSE IF published.err # NoErr
       THEN EntryResult(NilEntry, published.err)
       ELSE IF KRevision \notin DOMAIN fm
       THEN EntryResult(HtmlEntry(<<>>, <<>>, published.val, <<>>, <<>>),
                        Error("Missing revision date in front matter"))
       ELSE IF revision.err # NoErr
       THEN EntryResult(HtmlEntry(<<>>, <<>>, published.val, <<>>, <<>>),
                        revision.err)
       ELSE IF KTitle \notin DOMAIN fm
       THEN EntryResult(HtmlEntry(<<>>, <<>>, published.val,
                                  revision.val, <<>>),
                        Error("Missing title in front matter"))
       ELSE IF parseTitlePanics(fm[KTitle])
       THEN EntryPanic
       ELSE IF KExcerpt \notin DOMAIN fm
       THEN EntryResult(HtmlEntry(fm[KTitle], parseTitle(fm[KTitle]),
                                  published.val,
                                  revision.val, <<>>),
                        Error("Missing excerpt in front matter"))
       ELSE EntryResult(HtmlEntry(fm[KTitle], parseTitle(fm[KTitle]),
                                  published.val,
                                  revision.val, fm[KExcerpt]), NoErr)

\* entry.NewHtmlEntry: the checks in the order of the code
NewHtmlEntry(fm) ==
    LET published == FormatDate(fm[KPublished])
        revision == FormatDate(fm[KRevision])
    IN IF KPublished \notin DOMAIN fm
       THEN EntryResult(NilEntry, Error("Missing publish date in front matter"))
       ELSE IF published.err # NoErr
       THEN EntryResult(NilEntry, published.err)
       ELSE IF KRevision \notin DOMAIN fm
       THEN EntryResult(NilEntry, Error("Missing revision date in front matter"))
       ELSE IF revision.err # NoErr
       THEN EntryResult(NilEntry, revision.err)
       ELSE IF KTitle \notin DOMAIN fm
       THEN EntryResult(NilEntry, Error("Missing title in front matter"))
       ELSE IF parseTitlePanics(fm[KTitle])
       THEN EntryPanic
       ELSE IF KExcerpt \notin DOMAIN fm
       THEN EntryResult(NilEntry, Error("Missing excerpt in front matter"))
       ELSE EntryResult(HtmlEntry(fm[KTitle], parseTitle(fm[KTitle]),
                                  published.val,
                                  revision.val, fm[KExcerpt]), NoErr)

-----------------------------------------------------------------------------
(* The file system as the os package shows it: a map from path to file *)

Slash == "/"

\* the bytes that occur in the model's strings, in ascending byte order
ByteOrder == <<" ", "-", ".", "/", "0", "1", "2", "3", "4", "5", "6", "7", "8", "9", ":">>
             \o Upper \o Lower

ord(c) == CHOOSE i \in 1..Len(ByteOrder) : ByteOrder[i] = c

\* a < b as Go compares strings
RECURSIVE less(_, _)
less(a, b) ==
    IF b = <<>> THEN FALSE
    ELSE IF a = <<>> THEN TRUE
    ELSE IF Head(a) = Head(b) THEN less(Tail(a), Tail(b))
    ELSE ord(Head(a)) < ord(Head(b))

\* the names of a directory listing, sorted by file name as os.ReadDir does
RECURSIVE sortNames(_)
sortNames(S) ==
    IF S = {} THEN <<>>
    ELSE LET first == CHOOSE x \in S : \A y \in S : x = y \/ less(x, y)
         IN <<first>> \o sortNames(S \ {first})

DotDot == <<".", ".">>

\* filepath.Clean on path components: a ".." removes the component before it
RECURSIVE cleanParts(_, _)
cleanParts(parts, done) ==
    IF parts = <<>> THEN done
    ELSE IF Head(parts) = DotDot /\ done # <<>> /\ done[Len(done)] # DotDot
    THEN cleanParts(Tail(parts), SubSeq(done, 1, Len(done) - 1))
    ELSE cleanParts(Tail(parts), Append(done, Head(parts)))

\* filepath.Join: the elements joined by '/', the result cleaned
filepathJoin(parts) ==
    Join(cleanParts(Split(Join(parts, <<Slash>>), Slash), <<>>), <<Slash>>)

\* the last component of a path and the path of its directory
baseName(path) == LET parts == Split(path, Slash) IN parts[Len(parts)]
dirName(path) == LET parts == Split(path, Slash) IN filepathJoin(SubSeq(parts, 1, Len(parts) - 1))

\* a directory, a text file (Markdown source or template), and a file that
\* a template was executed into
File(isDir, state, lines, page, list) ==
    [isDir |-> isDir, state |-> state, lines |-> lines, page |-> page, list |-> list]
Directory == File(TRUE, "dir", <<>>, NilEntry, <<>>)
TextFile(lines) == File(FALSE, "text", lines, NilEntry, <<>>)
\* a template whose execution fails after part of the output is written
BrokenTemplate == File(FALSE, "broken", <<>>, NilEntry, <<>>)
\* os.Create: a new or truncated file
EmptyFile == File(FALSE, "empty", <<>>, NilEntry, <<>>)
\* the file after the layout was executed into it: all, or part, of the page
PageFile(entry) == File(FALSE, "page", <<>>, entry, <<>>)
PartialFile(entry) == File(FALSE, "partial", <<>>, entry, <<>>)
\* the file after two executions wrote into it through two open handles
MixedFile(entry) == File(FALSE, "mixed", <<>>, entry, <<>>)

isDirectory(f, path) == path \in DOMAIN f /\ f[path].isDir
isFile(f, path) == path \in DOMAIN f /\ ~f[path].isDir

\* os.ReadDir(dir): the names in dir, sorted; fails when dir is no directory
osReadDirOK(f, dir) == isDirectory(f, dir)
osReadDir(f, dir) == sortNames({baseName(q) : q \in {q \in DOMAIN f : dirName(q) = dir}})

\* os.Create(path): fails when the directory is missing or path is a directory
osCreateOK(f, path) == isDirectory(f, dirName(path)) /\ ~isDirectory(f, path)
osCreate(f, path) == [q \in DOMAIN f \cup {path} |-> IF q = path THEN EmptyFile ELSE f[q]]

\* writing through an open handle replaces what the file at path holds
osWrite(f, path, file) == [q \in DOMAIN f \cup {path} |-> IF q = path THEN file ELSE f[q]]

\* os.Rename(from, to) of a regular file: fails when from is missing, when the
\* directory of to is missing, or when to is a directory
osRenameOK(f, from, to) ==
    isFile(f, from) /\ isDirectory(f, dirName(to)) /\ ~isDirectory(f, to)
osRename(f, from, to) ==
    [q \in (DOMAIN f \ {from}) \cup {to} |-> IF q = to THEN f[from] ELSE f[q]]

-----------------------------------------------------------------------------
(* package filer *)

src == <<"e","n","t","r","i","e","s">>
dst == <<"p","a","g","e","s">>
DraftDir == <<"d","r","a","f","t">>
PublishedDir == <<"p","u","b","l","i","s","h","e","d">>
ExtMd == <<".","m","d">>
ExtHtml == <<".","h","t","m","l">>
IndexHtml == <<"i","n","d","e","x",".","h","t","m","l">>
TemplatesDir == <<"t","e","m","p","l","a","t","e","s">>
LayoutHtml == <<"l","a","y","o","u","t",".","h","t","m","l">>
FooterHtml == <<"f","o","o","t","e","r",".","h","t","m","l">>
EntryMd == <<"e","n","t","r","y",".","m","d">>

\* the names that list keeps: regular files whose name ends in .md
listedNames(f, dir) ==
    SelectSeq(osReadDir(f, filepathJoin(<<src, dir>>)),
              LAMBDA name : ~f[filepathJoin(<<src, dir, name>>)].isDir /\ HasSuffix(name, ExtMd))

\* a plausible slip: directories are not filtered out of the listing
list_withDirs(f, dir) ==
    LET names == SelectSeq(osReadDir(f, filepathJoin(<<src, dir>>)),
                           LAMBDA name : HasSuffix(name, ExtMd))
    IN [id \in 1..Len(names) |-> filepathJoin(<<src, dir, names[id]>>)]

\* filer.list: the map from id (1, 2, ...) to path
list(f, dir) ==
    LET names == listedNames(f, dir)
    IN [id \in 1..Len(names) |-> filepathJoin(<<src, dir, names[id]>>)]

listOK(f, dir) == osReadDirOK(f, filepathJoin(<<src, dir>>))

\* filer.ListDrafts
ListDrafts(f) == list(f, DraftDir)

\* a plausible slip: the feed is built from every source, drafts included
ListPublished_withDrafts(f) == list(f, DraftDir) \o list(f, PublishedDir)

\* filer.ListPublished
ListPublished(f) == list(f, PublishedDir)

\* filer.Publish: the target of the move
publishTarget(from) == filepathJoin(<<src, PublishedDir, baseName(from)>>)

\* filer.CreatePage: the path of the page
pagePath(filename) == filepathJoin(<<dst, filename \o ExtHtml>>)

\* filer.CreateDraft: the path of the draft
draftPath(filename) == filepathJoin(<<src, DraftDir, filename>>)

-----------------------------------------------------------------------------
(* package editor: ParseMd and the steps of Publish *)

Newline == "\n"

RECURSIVE readBody(_, _)

\* a plausible slip: a delimiter line is left out of the body
readBody_skipsDelimiters(lines, next) ==
    LET rest == SelectSeq(SubSeq(lines, next, Len(lines)),
                          LAMBDA l : Trim(l, Sp) # Delimiter)
    IN IF rest = <<>> THEN <<>> ELSE Join(rest, <<Newline>>) \o <<Newline>>

\* editor.readBody: every remaining line followed by a newline
readBody(lines, next) ==
    IF next > Len(lines) THEN <<>>
    ELSE lines[next] \o <<Newline>> \o readBody(lines, next + 1)

MdResult(fm, body, err) == [fm |-> fm, body |-> body, err |-> err]

\* editor.ParseMd: os.Open, readFrontMatter, readBody; a directory opens but
\* cannot be read
ParseMd(f, fp) ==
    IF fp \notin DOMAIN f THEN MdResult(EmptyMap, <<>>, Error("open: no such file"))
    ELSE IF f[fp].isDir THEN MdResult(EmptyMap, <<>>, Error("read: is a directory"))
    ELSE LET r == readFrontMatter(f[fp].lines)
         IN IF r.err # NoErr THEN MdResult(EmptyMap, <<>>, r.err)
            ELSE MdResult(r.fm, readBody(f[fp].lines, r.next), NoErr)

\* blackfriday.Run, the external Markdown renderer: stands for the HTML of body
blackfridayRun(body) ==
    IF body = <<>> THEN <<>> ELSE <<"<", "p", ">">> \o body \o <<"<", "/", "p", ">">>

templatePath(name) == filepathJoin(<<TemplatesDir, name>>)

\* template.ParseFiles(names...): every file must be there
templateParseFilesOK(f, names) == \A i \in 1..Len(names) : isFile(f, templatePath(names[i]))

\* tmpl.ExecuteTemplate: fails, part of the output written, on a broken template
templateExecuteOK(f, name) == f[templatePath(name)].state # "broken"

\* one call of editor.Publish: where it is, the entry it built, the page file
\* it created and holds open, and the error it returned
Task(at, entry, page, err) == [pc |-> at, entry |-> entry, page |-> page, err |-> err]
NewTask == Task("parse", NilEntry, <<>>, NoErr)

NoExit == -1

Alive == pc # "idle"

\* the caller of Publish(p) gets err back: the goroutine of PublishAll drops
\* it and its deferred waitgroup.Done() runs; in the publish command must()
\* exits with 1 on an error
Returned(p, t, err) ==
    /\ tasks' = [tasks EXCEPT ![p] = [t EXCEPT !.pc = "done", !.err = err]]
    /\ IF cmd = "publish-all"
       THEN wg' = wg - 1 /\ UNCHANGED <<pc, exitCode>>
       ELSE /\ UNCHANGED wg
            /\ IF err # NoErr
               THEN pc' = "idle" /\ exitCode' = 1
               ELSE pc' = "index" /\ UNCHANGED exitCode

\* Publish(p) panics: the deferred waitgroup.Done() of the goroutine runs
\* while the panic unwinds, then the run-time ends the process
Panicked(p) ==
    /\ tasks' = [tasks EXCEPT ![p].pc = "panicked"]
    /\ IF cmd = "publish-all"
       THEN wg' = wg - 1 /\ UNCHANGED <<pc, exitCode>>
       ELSE pc' = "panic" /\ UNCHANGED <<wg, exitCode>>

\* Publish: ParseMd, NewHtmlEntry, blackfriday.Run
TaskParse(p) ==
    /\ Alive /\ p \in DOMAIN tasks /\ tasks[p].pc = "parse"
    /\ LET md == ParseMd(fs, p)
           e == NewHtmlEntry(md.fm)
       IN IF md.err # NoErr THEN Returned(p, tasks[p], md.err)
          ELSE IF e.panic THEN Panicked(p)
          ELSE IF e.err # NoErr THEN Returned(p, tasks[p], e.err)
          ELSE /\ tasks' = [tasks EXCEPT ![p] =
                      Task("create", [e.entry EXCEPT !.Body = blackfridayRun(md.body)],
                           <<>>, NoErr)]
               /\ UNCHANGED <<pc, wg, exitCode>>
    /\ UNCHANGED <<fs, cmd, drafts, runs>>
    /\ UNCHANGED <<harnessVars, tieOrder, serverVars>>

\* a plausible slip: the source is moved as soon as the page file exists
TaskCreate_moveFirst(p) ==
    /\ Alive /\ p \in DOMAIN tasks /\ tasks[p].pc = "create"
    /\ LET path == pagePath(tasks[p].entry.Filename)
       IN IF osCreateOK(fs, path)
          THEN /\ fs' = osRename(osCreate(fs, path), p, publishTarget(p))
               /\ tasks' = [tasks EXCEPT ![p].pc = "render", ![p].page = path]
               /\ UNCHANGED <<pc, wg, exitCode>>
          ELSE /\ Returned(p, tasks[p], Error("create"))
               /\ UNCHANGED fs
    /\ UNCHANGED <<cmd, drafts, runs>>
    /\ UNCHANGED <<harnessVars, tieOrder, serverVars>>

\* Publish: filer.CreatePage(entry.Filename)
TaskCreate(p) ==
    /\ Alive /\ p \in DOMAIN tasks /\ tasks[p].pc = "create"
    /\ LET path == pagePath(tasks[p].entry.Filename)
       IN IF osCreateOK(fs, path)
          THEN /\ fs' = osCreate(fs, path)
               /\ tasks' = [tasks EXCEPT ![p].pc = "render", ![p].page = path]
               /\ UNCHANGED <<pc, wg, exitCode>>
          ELSE /\ Returned(p, tasks[p], Error("create"))
               /\ UNCHANGED fs
    /\ UNCHANGED <<cmd, drafts, runs>>
    /\ UNCHANGED <<harnessVars, tieOrder, serverVars>>

\* Publish: template.ParseFiles(layout, footer) and ExecuteTemplate(f, "layout", entry)
TaskRender(p) ==
    /\ Alive /\ p \in DOMAIN tasks /\ tasks[p].pc = "render"
    /\ LET t == tasks[p]
       IN IF ~templateParseFilesOK(fs, <<LayoutHtml, FooterHtml>>)
          THEN Returned(p, t, Error("template: no such file")) /\ UNCHANGED fs
          ELSE IF ~templateExecuteOK(fs, LayoutHtml)
          THEN /\ fs' = osWrite(fs, t.page, PartialFile(t.entry))
               /\ Returned(p, t, Error("template: execute"))
          ELSE /\ fs' = osWrite(fs, t.page,
                            IF fs[t.page].state = "empty"
                            THEN PageFile(t.entry) ELSE MixedFile(t.entry))
               /\ tasks' = [tasks EXCEPT ![p].pc = "move"]
               /\ UNCHANGED <<pc, wg, exitCode>>
    /\ UNCHANGED <<cmd, drafts, runs>>
    /\ UNCHANGED <<harnessVars, tieOrder, serverVars>>

\* a plausible slip: the source is copied, the draft stays
publishMove_copy(f, from) == osWrite(f, publishTarget(from), f[from])

\* a plausible slip: the move goes from published/ back to draft/
publishMove_reversed(f, from) ==
    IF osRenameOK(f, publishTarget(from), from)
    THEN osRename(f, publishTarget(from), from) ELSE f

\* filer.Publish / filer.move: os.Rename(from, to)
publishMove(f, from) == osRename(f, from, publishTarget(from))

\* Publish: filer.Publish(entryfile), then return nil
TaskMove(p) ==
    /\ Alive /\ p \in DOMAIN tasks /\ tasks[p].pc = "move"
    /\ IF osRenameOK(fs, p, publishTarget(p))
       THEN fs' = publishMove(fs, p) /\ Returned(p, tasks[p], NoErr)
       ELSE UNCHANGED fs /\ Returned(p, tasks[p], Error("rename"))
    /\ UNCHANGED <<cmd, drafts, runs>>
    /\ UNCHANGED <<harnessVars, tieOrder, serverVars>>

\* an unrecovered panic ends the process with exit code 2
Crash ==
    /\ Alive
    /\ pc = "panic" \/ \E p \in DOMAIN tasks : tasks[p].pc = "panicked"
    /\ pc' = "idle" /\ exitCode' = 2
    /\ UNCHANGED <<fs, cmd, drafts, tasks, wg, runs>>
    /\ UNCHANGED <<harnessVars, tieOrder, serverVars>>

-----------------------------------------------------------------------------
(* editor.PublishAll, called by the publish-all command *)

SeqRange(q) == {q[i] : i \in DOMAIN q}

\* must(err, msg) on an error: print and os.Exit(1)
MustExit == pc' = "idle" /\ exitCode' = 1

\* PublishAll: drafts, err := filer.ListDrafts()
PublishAllList ==
    /\ pc = "pa_list"
    /\ IF listOK(fs, DraftDir)
       THEN drafts' = ListDrafts(fs) /\ pc' = "pa_spawn" /\ UNCHANGED exitCode
       ELSE MustExit /\ UNCHANGED drafts
    /\ UNCHANGED <<fs, cmd, tasks, wg, runs>>
    /\ UNCHANGED <<harnessVars, tieOrder, serverVars>>

\* PublishAll: wg.Add(1); go func(...) { defer waitgroup.Done(); Publish(draftname) }
\* for the next draft of the range over the map, in any order
PublishAllSpawn(id) ==
    /\ pc = "pa_spawn"
    /\ id \in DOMAIN drafts /\ drafts[id] \notin DOMAIN tasks
    /\ wg' = wg + 1
    /\ tasks' = [p \in DOMAIN tasks \cup {drafts[id]} |->
                    IF p = drafts[id] THEN NewTask ELSE tasks[p]]
    /\ UNCHANGED <<fs, cmd, pc, drafts, exitCode, runs>>
    /\ UNCHANGED <<harnessVars, tieOrder, serverVars>>

\* a plausible slip: the wait does not wait
waitReleased_always(counter) == TRUE

\* wg.Wait() returns when the counter is zero
waitReleased(counter) == counter = 0

\* PublishAll: the range is over, wg.Wait() returns, return nil; the command
\* goes on to GenerateIndex
PublishAllWait ==
    /\ pc = "pa_spawn"
    /\ SeqRange(drafts) \subseteq DOMAIN tasks
    /\ waitReleased(wg)
    /\ pc' = "index"
    /\ UNCHANGED <<fs, cmd, drafts, tasks, wg, exitCode, runs>>
    /\ UNCHANGED <<harnessVars, tieOrder, serverVars>>

-----------------------------------------------------------------------------
(* the publish command of main: list, ask, Publish, GenerateIndex *)

PublishList ==
    /\ pc = "p_list"
    /\ IF ~listOK(fs, DraftDir) THEN MustExit /\ UNCHANGED drafts
       ELSE IF Len(ListDrafts(fs)) = 0
       THEN pc' = "idle" /\ exitCode' = 0 /\ UNCHANGED drafts
       ELSE drafts' = ListDrafts(fs) /\ pc' = "p_ask" /\ UNCHANGED exitCode
    /\ UNCHANGED <<fs, cmd, tasks, wg, runs>>
    /\ UNCHANGED <<harnessVars, tieOrder, serverVars>>

\* fmt.Scanf("%d", &answer) and the lookup drafts[answer]
PublishAnswer(answer) ==
    /\ pc = "p_ask"
    /\ IF answer \in DOMAIN drafts
       THEN /\ tasks' = [p \in {drafts[answer]} |-> NewTask]
            /\ pc' = "p_publish" /\ UNCHANGED exitCode
       ELSE MustExit /\ UNCHANGED tasks
    /\ UNCHANGED <<fs, cmd, drafts, wg, runs>>
    /\ UNCHANGED <<harnessVars, tieOrder, serverVars>>

-----------------------------------------------------------------------------
(* editor.Draft, called by the draft command *)

\* templates/entry.md executed with entry.NewMdEntry(title): today's date
\* for both dates and an empty excerpt
draftLines(title, today) ==
    << Delimiter,
       KTitle \o <<Colon, Sp>> \o title,
       KPublished \o <<Colon, Sp>> \o today,
       KRevision \o <<Colon, Sp>> \o today,
       KExcerpt \o <<Colon, Sp>>,
       Delimiter >>

Draft(title, today) ==
    /\ pc = "draft"
    /\ LET path == draftPath(title \o ExtMd)
       IN IF ~osCreateOK(fs, path) THEN MustExit /\ UNCHANGED fs
          ELSE IF ~templateParseFilesOK(fs, <<EntryMd>>)
          THEN fs' = osCreate(fs, path) /\ MustExit
          ELSE IF ~templateExecuteOK(fs, EntryMd)
          THEN fs' = osWrite(fs, path, TextFile(<<Delimiter>>)) /\ MustExit
          ELSE /\ fs' = osWrite(fs, path, TextFile(draftLines(title, today)))
               /\ pc' = "idle" /\ exitCode' = 0
    /\ UNCHANGED <<cmd, drafts, tasks, wg, runs>>
    /\ UNCHANGED <<harnessVars, tieOrder, serverVars>>

-----------------------------------------------------------------------------
(* editor.GenerateIndex *)

Comma == ","

PageLink(link, title, date, dateDisplay, tags) ==
    [Link |-> link, Title |-> title, Date |-> date, DateDisplay |-> dateDisplay,
     Tags |-> tags]

\* frontMatter[key] of a Go map: the empty string when the key is absent
mapGet(m, key) == IF key \in DOMAIN m THEN m[key] ELSE <<>>

\* a plausible slip: index.html is listed as a page
ListPages_withIndex(f) ==
    SelectSeq(osReadDir(f, dst),
              LAMBDA name : /\ ~f[filepathJoin(<<dst, name>>)].isDir
                            /\ HasSuffix(name, ExtHtml))

\* filer.ListPages: the regular .html files of dst other than index.html
ListPages(f) ==
    SelectSeq(osReadDir(f, dst),
              LAMBDA name : /\ ~f[filepathJoin(<<dst, name>>)].isDir
                            /\ HasSuffix(name, ExtHtml)
                            /\ name # IndexHtml)

\* filer.GetPublishedEntry(file): the Markdown source of a page, looked up
\* in published/ under the page's name
publishedEntryPath(file) ==
    filepathJoin(<<src, PublishedDir, TrimSuffix(file, ExtHtml) \o ExtMd>>)

\* the tags of a front matter: split on ',', none for an empty value
tagsOf(value) ==
    LET tags == Split(value, Comma) IN IF tags[1] = <<>> THEN <<>> ELSE tags

LinkResult(link, err) == [link |-> link, err |-> err]
NoLink == PageLink(<<>>, <<>>, <<>>, <<>>, <<>>)

\* the body of GenerateIndex's loop for one page
pageLinkOf(f, file) ==
    LET path == publishedEntryPath(file)
        r == readFrontMatter(f[path].lines)
    IN IF ~isFile(f, path) THEN LinkResult(NoLink, Error("open: no such file"))
       ELSE IF r.err # NoErr THEN LinkResult(NoLink, r.err)
       ELSE IF ~timeParseOK(mapGet(r.fm, KRevision))
       THEN LinkResult(NoLink, ParseError(mapGet(r.fm, KRevision)))
       ELSE LinkResult(PageLink(file,
                                ReplaceAll(TrimSuffix(file, ExtHtml), Dash, Sp),
                                mapGet(r.fm, KRevision),
                                FormatDate(mapGet(r.fm, KRevision)).val,
                                tagsOf(mapGet(r.fm, KTags))), NoErr)

\* the loop of GenerateIndex over the pages: the links in listing order, or
\* the first error
RECURSIVE collectLinks(_, _, _, _)
collectLinks(f, files, i, links) ==
    IF i > Len(files) THEN [links |-> links, err |-> NoErr]
    ELSE LET r == pageLinkOf(f, files[i])
         IN IF r.err # NoErr THEN [links |-> <<>>, err |-> r.err]
            ELSE collectLinks(f, files, i + 1, Append(links, r.link))

\* the day count that orders two parsed dates
dateNumber(value) ==
    atoi(SubSeq(value, 1, 4)) * 10000 + atoi(SubSeq(value, 6, 7)) * 100
    + atoi(SubSeq(value, 9, 10))

\* links[i].Date.After(links[j].Date)
dateAfter(a, b) == dateNumber(a) > dateNumber(b)

IndexPermutations(n) == {q \in [1..n -> 1..n] : \A i, j \in 1..n : q[i] = q[j] => i = j}

\* sort.Slice is not guaranteed to be stable: where the less function orders
\* neither of two elements, the algorithm of the Go release decides, always
\* in the same way for the same input. A build either keeps such elements in
\* the order of the slice or leaves them in the opposite order.
TieOrders == {"kept", "reversed"}

\* a plausible slip: the less function compares the other way round
sortedByDate_ascending(links, ties) ==
    LET n == Len(links)
        q == CHOOSE q \in IndexPermutations(n) :
                 \A i, j \in 1..n :
                     i < j => \/ dateAfter(links[q[j]].Date, links[q[i]].Date)
                              \/ /\ ~dateAfter(links[q[i]].Date, links[q[j]].Date)
                                 /\ IF ties = "kept" THEN q[i] < q[j] ELSE q[i] > q[j]
    IN [i \in 1..n |-> links[q[i]]]

\* sort.Slice with the less function of GenerateIndex: no link is before one
\* of a later date, links of one date are ordered as the build orders ties
sortedByDate(links, ties) ==
    LET n == Len(links)
        q == CHOOSE q \in IndexPermutations(n) :
                 \A i, j \in 1..n :
                     i < j => \/ dateAfter(links[q[i]].Date, links[q[j]].Date)
                              \/ /\ ~dateAfter(links[q[j]].Date, links[q[i]].Date)
                                 /\ IF ties = "kept" THEN q[i] < q[j] ELSE q[i] > q[j]
    IN [i \in 1..n |-> links[q[i]]]

IndexFile(links) == File(FALSE, "index", <<>>, NilEntry, links)
PartialIndexFile(links) == File(FALSE, "partial", <<>>, NilEntry, links)

indexPath == filepathJoin(<<dst, IndexHtml>>)

\* editor.GenerateIndex, then generateFeed() of main
GenerateIndex ==
    /\ pc = "index"
    /\ LET found == collectLinks(fs, ListPages(fs), 1, <<>>)
       IN IF ~osReadDirOK(fs, dst) THEN MustExit /\ UNCHANGED fs
          ELSE IF found.err # NoErr THEN MustExit /\ UNCHANGED fs
          ELSE IF ~osCreateOK(fs, indexPath) THEN MustExit /\ UNCHANGED fs
          ELSE IF ~templateParseFilesOK(fs, <<IndexHtml, FooterHtml>>)
          THEN fs' = osCreate(fs, indexPath) /\ MustExit
          ELSE LET sorted == sortedByDate(found.links, tieOrder)
               IN IF ~templateExecuteOK(fs, IndexHtml)
                  THEN fs' = osWrite(fs, indexPath, PartialIndexFile(sorted)) /\ MustExit
                  ELSE /\ fs' = osWrite(fs, indexPath, IndexFile(sorted))
                       /\ pc' = "feed" /\ UNCHANGED exitCode
    /\ UNCHANGED <<cmd, drafts, tasks, wg, runs>>
    /\ UNCHANGED <<harnessVars, tieOrder, serverVars>>

-----------------------------------------------------------------------------
(* feed.Generate, called by generateFeed() of main *)

FeedXml == <<"f","e","e","d",".","x","m","l">>
FeedRss == <<"f","e","e","d",".","r","s","s">>
baseURL == <<"h","t","t","p","s",":","/","/","g","e","r","m","a","n","d","v",".","m","e",
             "/","b","l","o","g","/">>

\* feed.getLink
getLink(mdFilepath) == baseURL \o TrimSuffix(baseName(mdFilepath), ExtMd) \o ExtHtml

Item(title, link, description, created) ==
    [Title |-> title, Link |-> link, Description |-> description, Created |-> created]

\* the loop of feed.Generate over the published files taken in the order
\* `files`: the items, or the first error or panic met
RECURSIVE collectItems(_, _, _, _)
collectItems(f, files, i, items) ==
    IF i > Len(files) THEN [items |-> items, err |-> NoErr, panic |-> FALSE]
    ELSE LET md == ParseMd(f, files[i])
             e == NewHtmlEntry(md.fm)
         IN IF md.err # NoErr THEN [items |-> <<>>, err |-> md.err, panic |-> FALSE]
            ELSE IF e.panic THEN [items |-> <<>>, err |-> NoErr, panic |-> TRUE]
            ELSE IF e.err # NoErr THEN [items |-> <<>>, err |-> e.err, panic |-> FALSE]
            ELSE collectItems(f, files, i + 1,
                     Append(items, Item(e.entry.Title, getLink(files[i]),
                                        e.entry.Excerpt, e.entry.Published)))

FeedFile(items) == File(FALSE, "feed", <<>>, NilEntry, items)
PartialFeedFile(items) == File(FALSE, "partial", <<>>, NilEntry, items)

feedPath == filepathJoin(<<dst, FeedRss>>)

\* the orders in which a range over the map can visit its values
rangeOrders(m) == {[i \in 1..Len(m) |-> m[q[i]]] : q \in IndexPermutations(Len(m))}

\* feed.Generate and the end of the command
FeedGenerate ==
    /\ pc = "feed"
    /\ IF ~listOK(fs, PublishedDir) THEN MustExit /\ UNCHANGED fs
       ELSE \E files \in rangeOrders(ListPublished(fs)) :
              LET got == collectItems(fs, files, 1, <<>>)
              IN IF got.panic THEN pc' = "panic" /\ UNCHANGED <<fs, exitCode>>
                 ELSE IF got.err # NoErr THEN MustExit /\ UNCHANGED fs
                 ELSE IF ~templateParseFilesOK(fs, <<FeedXml>>) THEN MustExit /\ UNCHANGED fs
                 ELSE IF ~osCreateOK(fs, feedPath) THEN MustExit /\ UNCHANGED fs
                 ELSE IF ~templateExecuteOK(fs, FeedXml)
                 THEN fs' = osWrite(fs, feedPath, PartialFeedFile(got.items)) /\ MustExit
                 ELSE /\ fs' = osWrite(fs, feedPath, FeedFile(got.items))
                      /\ pc' = "idle" /\ exitCode' = 0
    /\ UNCHANGED <<cmd, drafts, tasks, wg, runs>>
    /\ UNCHANGED <<harnessVars, tieOrder, serverVars>>

-----------------------------------------------------------------------------
(* main: one process per run of the command line *)

Start(command, at) ==
    /\ pc = "idle" /\ runs < MaxRuns
    /\ cmd' = command /\ pc' = at
    /\ drafts' = <<>> /\ tasks' = <<>> /\ wg' = 0
    /\ exitCode' = NoExit /\ runs' = runs + 1
    /\ UNCHANGED fs
    /\ UNCHANGED <<harnessVars, tieOrder, serverVars>>

StartPublishAll == Start("publish-all", "pa_list")
StartPublish == Start("publish", "p_list")
StartDraft == Start("draft", "draft")
StartFeed == Start("feed", "feed")

-----------------------------------------------------------------------------
(* package server: the routes, the basicAuth middleware, editor.Preview *)

StatusOK == 200
StatusUnauthorized == 401
StatusNotFound == 404
StatusInternalServerError == 500

PreviewPrefix == <<Slash, "p", "r", "e", "v", "i", "e", "w", Slash>>
AnalyticsPath == <<Slash, "a", "n", "a", "l", "y", "t", "i", "c", "s">>
HealthCheckPath == <<Slash, "h", "e", "a", "l", "t", "h", "_", "c", "h", "e", "c", "k">>
FeedPath == <<Slash, "f", "e", "e", "d">>
RootPath == <<Slash>>

\* ENV, BASIC_AUTH_USER and BASIC_AUTH_PASS; an unset variable reads as ""
Env(mode, user, pass) == [ENV |-> mode, user |-> user, pass |-> pass]

\* r.BasicAuth(): ok is false when the request has no Basic credentials
Auth(ok, username, password) == [ok |-> ok, username |-> username, password |-> password]
NoAuth == Auth(FALSE, "", "")

Request(path, auth) == [path |-> path, auth |-> auth]
NoRequest == Request(<<>>, NoAuth)

\* what Preview gave back: it panicked, or it returned err and entry
PreviewResult(panic, err, entry) == [panic |-> panic, err |-> err, entry |-> entry]
NoPreview == PreviewResult(FALSE, Error("not run"), NilEntry)

\* a response: the status, the WWW-Authenticate header, the text written,
\* the handler that ran behind the middleware, and what that handler sent:
\* the drafts it listed, the result of Preview it rendered
Response(status, header, body, ran, listing, preview) ==
    [status |-> status, header |-> header, body |-> body, ran |-> ran,
     listing |-> listing, preview |-> preview]
NoResponse == Response(0, "", <<>>, "none", {}, NoPreview)

\* http.Error(w, msg, code): the message and a newline
httpError(msg, code, ran, preview) == Response(code, "", <<msg, Newline>>, ran, {}, preview)

\* sha256.Sum256: stands for the digest of a
sha256Sum(a) == <<"sha256", a>>

\* match: subtle.ConstantTimeCompare of the two digests
match(a, b) == sha256Sum(a) = sha256Sum(b)

\* a plausible slip: the variables are compared without the test for ""
grantPermission_unguarded(e, username, password) ==
    match(username, e.user) /\ match(password, e.pass)

\* grantPermission
grantPermission(e, username, password) ==
    IF e.user = "" \/ e.pass = "" THEN FALSE
    ELSE match(username, e.user) /\ match(password, e.pass)

\* a plausible slip: any credentials pass
basicAuth_unchecked(e, req, next) ==
    IF ~req.auth.ok
    THEN Response(StatusUnauthorized, "Basic",
                  <<"This endpoint requires authentication.", Newline>>, "none", {}, NoPreview)
    ELSE next

\* basicAuth(next): `next` is the response of the wrapped handler
basicAuth(e, req, next) ==
    IF ~req.auth.ok
    THEN Response(StatusUnauthorized, "Basic",
                  <<"This endpoint requires authentication.", Newline>>, "none", {}, NoPreview)
    ELSE IF ~grantPermission(e, req.auth.username, req.auth.password)
    THEN httpError("Bad credentials.", StatusUnauthorized, "none", NoPreview)
    ELSE next

\* editor.Preview: ParseMd, NewHtmlEntry, blackfriday.Run, template.ParseFiles
Preview(f, filename) ==
    LET md == ParseMd(f, filename)
        e == NewHtmlEntry(md.fm)
    IN IF md.err # NoErr THEN PreviewResult(FALSE, md.err, NilEntry)
       ELSE IF e.panic THEN PreviewResult(TRUE, NoErr, NilEntry)
       ELSE IF e.err # NoErr THEN PreviewResult(FALSE, e.err, NilEntry)
       ELSE IF ~templateParseFilesOK(f, <<LayoutHtml, FooterHtml>>)
       THEN PreviewResult(FALSE, Error("template: no such file"), NilEntry)
       ELSE PreviewResult(FALSE, NoErr, [e.entry EXCEPT !.Body = blackfridayRun(md.body)])

\* the handler of /analytics
analyticsHandler == Response(StatusOK, "", <<"WIP", Newline>>, "analytics", {}, NoPreview)

\* the handler of /health_check
healthCheckHandler == Response(StatusOK, "", <<>>, "health_check", {}, NoPreview)

\* the handler of /feed: os.ReadFile of pages/feed.rss
rssHandler(f) ==
    IF isFile(f, feedPath) THEN Response(StatusOK, "", <<>>, "feed", {}, NoPreview)
    ELSE httpError("open: no such file", StatusInternalServerError, "feed", NoPreview)

\* the handler of /: http.ServeFile of pages/index.html
indexHandler(f) ==
    IF isFile(f, indexPath) THEN Response(StatusOK, "", <<>>, "index", {}, NoPreview)
    ELSE httpError("404 page not found", StatusNotFound, "index", NoPreview)

\* the handler of /preview/: the list of drafts for an empty file name, else
\* the draft rendered by Preview; a panic of Preview is recovered by
\* dontPanic, which answers 500
previewHandler(f, req) ==
    LET file == TrimPrefix(req.path, PreviewPrefix)
        v == Preview(f, file)
    IN IF file = <<>>
       THEN IF ~listOK(f, DraftDir)
            THEN httpError("open: no such file", StatusInternalServerError, "preview", NoPreview)
            ELSE Response(StatusOK, "", <<>>, "preview", SeqRange(ListDrafts(f)), NoPreview)
       ELSE IF v.panic
       THEN httpError("Internal Server Error", StatusInternalServerError, "preview", v)
       ELSE IF v.err # NoErr
       THEN httpError(v.err.msg, StatusInternalServerError, "preview", v)
       ELSE Response(StatusOK, "", <<>>, "preview", {}, v)

\* the http.ServeMux that Listen fills: the preview route is registered in
\* development only (requests below /blog/ are not modelled)
serveMux(e, f, req) ==
    IF req.path = AnalyticsPath THEN basicAuth(e, req, analyticsHandler)
    ELSE IF req.path = HealthCheckPath THEN healthCheckHandler
    ELSE IF req.path = FeedPath THEN rssHandler(f)
    ELSE IF e.ENV = "development" /\ HasPrefix(req.path, PreviewPrefix)
    THEN previewHandler(f, req)
    ELSE indexHandler(f)

\* the server answers one request
Handle(req) ==
    /\ request' = req
    /\ response' = serveMux(env, fs, req)
    /\ UNCHANGED <<fs, cmd, pc, drafts, tasks, wg, exitCode, runs>>
    /\ UNCHANGED <<harnessVars, tieOrder, env>>

\* no server is running
NoServer ==
    /\ env = Env("", "", "")
    /\ request = NoRequest
    /\ response = NoResponse

-----------------------------------------------------------------------------
(* The parser harness: a line stream is chosen, then parsed *)

LDelim == <<"-", "-", "-">>
LDelimSp == <<" ", "-", "-", "-", " ">>
LAX == <<"a", ":", "x">>
LSpAY == <<" ", "a", ":", " ", "y", ":", "z", " ">>
LBColon == <<"b", " ", ":", "x">>
LAEmpty == <<"a", ":">>
LNoColon == <<"b">>
LBlank == <<>>

SampleLines == {LDelim, LDelimSp, LAX, LSpAY, LBColon, LAEmpty, LNoColon, LBlank}

RECURSIVE SeqsUpTo(_, _)
SeqsUpTo(S, n) ==
    IF n = 0 THEN {<<>>}
    ELSE LET shorter == SeqsUpTo(S, n - 1)
         IN shorter \cup {Append(s, x) : s \in {t \in shorter : Len(t) = n - 1}, x \in S}

NotRun == FMResult(EmptyMap, TRUE, Error("not run"), 0)

BodyResult(isNil, bytes) == [nil |-> isNil, bytes |-> bytes]
BodyNotRead == BodyResult(TRUE, <<"not read">>)

\* ParseMd: frontMatter, err := readFrontMatter(scanner)
RunReadFrontMatter ==
    /\ fmRet = NotRun
    /\ fmRet' = readFrontMatter(stream)
    /\ UNCHANGED <<stream, mdBody>>

\* ParseMd: body, err := readBody(scanner), on the scanner that
\* readFrontMatter has left behind the closing delimiter
RunReadBody ==
    /\ fmRet # NotRun /\ fmRet.err = NoErr
    /\ mdBody = BodyNotRead
    /\ mdBody' = BodyResult(FALSE, readBody(stream, fmRet.next))
    /\ UNCHANGED <<stream, fmRet>>

-----------------------------------------------------------------------------
(* The entry harness: a front-matter map is chosen, then validated *)

D1987 == <<"1","9","8","7","-","0","8","-","0","6">>
DLeap == <<"2","0","2","4","-","0","2","-","2","9">>
DNoLeap == <<"2","0","2","3","-","0","2","-","2","9">>
DBadDate == <<"b","a","d","-","d","a","t","e">>
DBadMonth == <<"1","9","8","7","-","b","a","d","-","0","6">>
DMonth13 == <<"1","9","8","7","-","1","3","-","0","1">>
DEmpty == <<>>

SampleDates == {D1987, DLeap, DNoLeap, DBadDate, DBadMonth, DMonth13, DEmpty}

TFooBar == <<"a","-","t","i","t","l","e","-","f","o","o","-","b","a","r">>
TOne == <<"a">>
TUpper == <<"B","-","2">>
TEmpty == <<>>
TLeadingDash == <<"-","f","o","o">>
TDoubleDash == <<"f","o","o","-","-","b","a","r">>

SampleTitles == {TFooBar, TOne, TUpper, TEmpty, TLeadingDash, TDoubleDash}

EBlah == <<"b","l","a","h"," ","b","l","a","h">>

SampleExcerpts == {<<>>, EBlah}

\* stands for "the key is not in the map" when a map is put together
Absent == <<"absent">>

MkFrontMatter(published, revision, title, excerpt) ==
    LET given == <<published, revision, title, excerpt>>
        keys == <<KPublished, KRevision, KTitle, KExcerpt>>
    IN [k \in {keys[i] : i \in {j \in 1..4 : given[j] # Absent}} |->
           given[CHOOSE i \in 1..4 : keys[i] = k]]

SampleFrontMatters ==
    {MkFrontMatter(p, r, t, e) :
        p \in SampleDates \cup {Absent}, r \in SampleDates \cup {Absent},
        t \in SampleTitles \cup {Absent}, e \in SampleExcerpts \cup {Absent}}

EntryNotRun == [panic |-> FALSE, entry |-> NilEntry, err |-> Error("not run")]

InitEntry ==
    /\ fmIn \in SampleFrontMatters
    /\ entryRet = EntryNotRun

RunNewHtmlEntry ==
    /\ entryRet = EntryNotRun
    /\ entryRet' = NewHtmlEntry(fmIn)
    /\ UNCHANGED fmIn

-----------------------------------------------------------------------------
(* The files on disk when the command line is first run *)

FileA == <<"a", ".", "m", "d">>
FileB == <<"b", ".", "m", "d">>
FileC == <<"c", ".", "m", "d">>
DirD == <<"d", ".", "m", "d">>
NotesTxt == <<"n", ".", "t", "x", "t">>
TitleA == <<"a">>
TitleB == <<"b">>
TitleC == <<"c">>
TitleDashB == <<"-", "b">>
TagsGo == <<"g", "o", ",", "t", "l", "a">>
BodyLine == <<"h", "i">>

kv(key, value) == key \o <<Colon, Sp>> \o value

DocGood(title, revision) ==
    << Delimiter, kv(KTitle, title), kv(KPublished, D1987), kv(KRevision, revision),
       kv(KTags, TagsGo), kv(KExcerpt, EBlah), Delimiter, BodyLine >>

DocNoExcerpt(title) ==
    << Delimiter, kv(KTitle, title), kv(KPublished, D1987), kv(KRevision, D1987),
       Delimiter, BodyLine >>

DocNoClose(title) ==
    << Delimiter, kv(KTitle, title), kv(KPublished, D1987), kv(KRevision, D1987),
       kv(KExcerpt, EBlah), BodyLine >>

\* a set of <<path, file>> pairs as a map
FilesOf(pairs) ==
    [path \in {x[1] : x \in pairs} |-> (CHOOSE x \in pairs : x[1] = path)[2]]

BaseDirs ==
    { <<src, Directory>>, <<filepathJoin(<<src, DraftDir>>), Directory>>,
      <<filepathJoin(<<src, PublishedDir>>), Directory>>, <<dst, Directory>>,
      <<TemplatesDir, Directory>> }

GoodTemplates ==
    { <<templatePath(n), TextFile(<<>>)>> :
        n \in {LayoutHtml, FooterHtml, IndexHtml, FeedXml, EntryMd} }

TemplateConfigs ==
    { GoodTemplates,
      GoodTemplates \ {<<templatePath(LayoutHtml), TextFile(<<>>)>>},
      (GoodTemplates \ {<<templatePath(LayoutHtml), TextFile(<<>>)>>})
          \cup {<<templatePath(LayoutHtml), BrokenTemplate>>} }

DraftAConfigs ==
    { {}, {<<draftPath(FileA), TextFile(DocGood(TitleA, D1987))>>},
          {<<draftPath(FileA), TextFile(DocNoExcerpt(TitleA))>>} }

DraftBConfigs ==
    { {}, {<<draftPath(FileB), TextFile(DocGood(TitleB, DLeap))>>},
          {<<draftPath(FileB), TextFile(DocGood(TitleA, DLeap))>>},
          {<<draftPath(FileB), TextFile(DocGood(TitleDashB, DLeap))>>},
          {<<draftPath(FileB), TextFile(DocNoClose(TitleB))>>} }

\* draft/ always holds a directory named like an entry and a file that is no entry
OtherDraftConfigs ==
    { {<<draftPath(DirD), Directory>>, <<draftPath(NotesTxt), TextFile(<<BodyLine>>)>>} }

PublishedConfigs ==
    { {}, { <<filepathJoin(<<src, PublishedDir, FileC>>), TextFile(DocGood(TitleC, DLeap))>>,
            <<pagePath(TitleC),
              PageFile([NewHtmlEntry(readFrontMatter(DocGood(TitleC, DLeap)).fm).entry
                           EXCEPT !.Body = blackfridayRun(BodyLine \o <<Newline>>)])>> } }

\* every draft configuration with the templates in place, and two well-formed
\* drafts with each of the template configurations
InitialFiles ==
    { FilesOf(BaseDirs \cup GoodTemplates \cup a \cup b \cup o \cup q) :
        a \in DraftAConfigs, b \in DraftBConfigs,
        o \in OtherDraftConfigs, q \in PublishedConfigs }
    \cup
    { FilesOf(BaseDirs \cup t
              \cup {<<draftPath(FileA), TextFile(DocGood(TitleA, D1987))>>,
                    <<draftPath(FileB), TextFile(DocGood(TitleB, DLeap))>>}
              \cup o \cup q) :
        t \in TemplateConfigs, o \in OtherDraftConfigs, q \in PublishedConfigs }

\* a title that leads out of draft/ into published/
TitleUpC == DotDot \o <<Slash>> \o PublishedDir \o <<Slash>> \o TitleC

DraftTitles == {TitleA, TitleC, TitleUpC}
Today == {DLeap}

-----------------------------------------------------------------------------
(* Specifications *)

NoProcess ==
    /\ cmd = "none" /\ pc = "idle"
    /\ drafts = <<>> /\ tasks = <<>> /\ wg = 0
    /\ exitCode = NoExit /\ runs = 0

InitFM ==
    /\ stream \in SeqsUpTo(SampleLines, MaxLines)
    /\ fmRet = NotRun
    /\ mdBody = BodyNotRead
    /\ fmIn = EmptyMap
    /\ entryRet = EntryNotRun
    /\ fs = FilesOf(BaseDirs)
    /\ NoProcess
    /\ tieOrder = "kept"
    /\ NoServer

NextFM ==
    \/ RunReadFrontMatter /\ UNCHANGED entryVars /\ UNCHANGED cliVars /\ UNCHANGED serverVars
    \/ RunReadBody /\ UNCHANGED entryVars /\ UNCHANGED cliVars /\ UNCHANGED serverVars

SpecFM == InitFM /\ [][NextFM]_vars

InitEntrySpec ==
    /\ InitEntry
    /\ stream = <<>>
    /\ fmRet = NotRun
    /\ mdBody = BodyNotRead
    /\ fs = FilesOf(BaseDirs)
    /\ NoProcess
    /\ tieOrder = "kept"
    /\ NoServer

NextEntry == RunNewHtmlEntry /\ UNCHANGED fmVars /\ UNCHANGED cliVars /\ UNCHANGED serverVars

SpecEntry == InitEntrySpec /\ [][NextEntry]_vars

Init ==
    /\ fs \in InitialFiles
    /\ NoProcess
    /\ tieOrder \in TieOrders
    /\ NoServer
    /\ stream = <<>>
    /\ fmRet = NotRun
    /\ mdBody = BodyNotRead
    /\ fmIn = EmptyMap
    /\ entryRet = EntryNotRun

TaskPaths == {draftPath(n) : n \in {FileA, FileB, FileC, DirD}}

MaxAnswer == 3

SpawnNext == \E id \in 1..MaxAnswer : PublishAllSpawn(id)
AnswerNext == \E answer \in 0..MaxAnswer : PublishAnswer(answer)
ParseNext == \E p \in TaskPaths : TaskParse(p)
CreateNext == \E p \in TaskPaths : TaskCreate(p)
RenderNext == \E p \in TaskPaths : TaskRender(p)
MoveNext == \E p \in TaskPaths : TaskMove(p)
DraftNext == \E title \in DraftTitles, today \in Today : Draft(title, today)

Next ==
    \/ StartPublishAll
    \/ StartPublish
    \/ StartDraft
    \/ StartFeed
    \/ PublishAllList
    \/ SpawnNext
    \/ PublishAllWait
    \/ PublishList
    \/ AnswerNext
    \/ ParseNext
    \/ CreateNext
    \/ RenderNext
    \/ MoveNext
    \/ Crash
    \/ GenerateIndex
    \/ FeedGenerate
    \/ DraftNext

Spec == Init /\ [][Next]_vars

-----------------------------------------------------------------------------
(* Properties of readFrontMatter *)

IsDelimiterLine(l) == Trim(l, Sp) = Delimiter

HasOpening(lines) == \E i \in 1..Len(lines) : IsDelimiterLine(lines[i])

OpeningIdx(lines) ==
    CHOOSE i \in 1..Len(lines) :
        IsDelimiterLine(lines[i]) /\ \A j \in 1..(i - 1) : ~IsDelimiterLine(lines[j])

HasClosing(lines) ==
    HasOpening(lines) /\ \E i \in (OpeningIdx(lines) + 1)..Len(lines) : IsDelimiterLine(lines[i])

ClosingIdx(lines) ==
    CHOOSE i \in (OpeningIdx(lines) + 1)..Len(lines) :
        IsDelimiterLine(lines[i])
        /\ \A j \in (OpeningIdx(lines) + 1)..(i - 1) : ~IsDelimiterLine(lines[j])

BlockIdx(lines) == (OpeningIdx(lines) + 1)..(ClosingIdx(lines) - 1)

\* a closed block in which every line has a ':'
WellFormedBlock(lines) ==
    HasClosing(lines) /\ \A k \in BlockIdx(lines) : Index(lines[k], Colon) # 0

TextBeforeColon(l) == SubSeq(l, 1, Index(l, Colon) - 1)
TextAfterColon(l) == SubSeq(l, Index(l, Colon) + 1, Len(l))

\* the key as the claim words it: the text of the line before its first ':'
RawKey(l) == TextBeforeColon(l)
\* the key of the line once its surrounding spaces are trimmed
TrimmedKey(l) == TextBeforeColon(Trim(l, Sp))
LineValue(l) == Trim(TextAfterColon(l), Sp)

\* the mapping of a well-formed block, the last occurrence of a key winning
BlockMap(lines, KeyOf(_)) ==
    [key \in {KeyOf(lines[k]) : k \in BlockIdx(lines)} |->
        LET last == CHOOSE k \in BlockIdx(lines) :
                        /\ KeyOf(lines[k]) = key
                        /\ \A m \in BlockIdx(lines) : KeyOf(lines[m]) = key => m <= k
        IN LineValue(lines[last])]

Parsed == fmRet # NotRun

\* C1 (as stated): lines before the opening delimiter are ignored, each line
\* of the block maps the text before its first ':' to the trimmed text after
\* it, the last occurrence of a key wins, and exactly that mapping is returned.
C1_Original ==
    (Parsed /\ WellFormedBlock(stream)) =>
        /\ fmRet.err = NoErr /\ ~fmRet.nil
        /\ fmRet.fm = BlockMap(stream, RawKey)

\* C1 (amended): the same, the key being the text before the first ':' of the
\* line after its surrounding spaces are trimmed.
C1_FrontMatterMapping ==
    (Parsed /\ WellFormedBlock(stream)) =>
        /\ fmRet.err = NoErr /\ ~fmRet.nil
        /\ fmRet.fm = BlockMap(stream, TrimmedKey)

\* a parsed block behind an ignored line, with a repeated key whose two
\* values differ and a value that contains ':'
C1_Witness ==
    /\ Parsed /\ WellFormedBlock(stream)
    /\ OpeningIdx(stream) > 1
    /\ \E k, m \in BlockIdx(stream) :
          /\ k < m
          /\ TrimmedKey(stream[k]) = TrimmedKey(stream[m])
          /\ LineValue(stream[k]) # LineValue(stream[m])
          /\ Index(LineValue(stream[m]), Colon) # 0
          /\ fmRet.fm[TrimmedKey(stream[m])] = LineValue(stream[m])

-----------------------------------------------------------------------------
(* Properties of NewHtmlEntry *)

EntryRan == entryRet # EntryNotRun

RequiredKeys == <<KPublished, KRevision, KTitle, KExcerpt>>

MissingMessage ==
    <<"Missing publish date in front matter", "Missing revision date in front matter",
      "Missing title in front matter", "Missing excerpt in front matter">>

SomeKeyAbsent(fm) == \E i \in 1..4 : RequiredKeys[i] \notin DOMAIN fm

FirstAbsent(fm) ==
    CHOOSE i \in 1..4 :
        RequiredKeys[i] \notin DOMAIN fm /\ \A j \in 1..(i - 1) : RequiredKeys[j] \in DOMAIN fm

\* the lengths of the twelve months of a common year
MonthLengths == <<31, 28, 31, 30, 31, 30, 31, 31, 30, 31, 30, 31>>

\* a calendar date written YYYY-MM-DD
WellFormedDate(s) ==
    /\ Len(s) = 10
    /\ \A i \in {1, 2, 3, 4, 6, 7, 9, 10} : isDigit(s[i])
    /\ s[5] = "-" /\ s[8] = "-"
    /\ LET y == atoi(SubSeq(s, 1, 4))
           m == atoi(SubSeq(s, 6, 7))
           d == atoi(SubSeq(s, 9, 10))
       IN /\ m \in 1..12
          /\ d >= 1
          /\ d <= MonthLengths[m] + (IF m = 2 /\ isLeap(y) THEN 1 ELSE 0)

\* the dates that are checked before the first absent key are well-formed
EarlierDatesWellFormed(fm) ==
    \A i \in 1..(FirstAbsent(fm) - 1) : i \in {1, 2} => WellFormedDate(fm[RequiredKeys[i]])

\* C2: an absent required key is reported by the error that names the first
\* absent key in the order published, revision, title, excerpt, whatever the
\* later keys are.
C2_FirstMissingKeyNamed ==
    (EntryRan /\ SomeKeyAbsent(fmIn) /\ EarlierDatesWellFormed(fmIn)) =>
        /\ ~entryRet.panic
        /\ entryRet.entry.nil
        /\ entryRet.err = Error(MissingMessage[FirstAbsent(fmIn)])

\* C3: a malformed published date is reported before anything that comes
\* after it, and a malformed revision date before title and excerpt.
C3_DateErrorFirst ==
    EntryRan =>
        /\ (KPublished \in DOMAIN fmIn /\ ~WellFormedDate(fmIn[KPublished])) =>
               /\ ~entryRet.panic /\ entryRet.entry.nil
               /\ entryRet.err = ParseError(fmIn[KPublished])
        /\ (/\ KPublished \in DOMAIN fmIn /\ WellFormedDate(fmIn[KPublished])
            /\ KRevision \in DOMAIN fmIn /\ ~WellFormedDate(fmIn[KRevision])) =>
               /\ ~entryRet.panic /\ entryRet.entry.nil
               /\ entryRet.err = ParseError(fmIn[KRevision])

\* a malformed published date together with absent later keys
C3_Witness ==
    /\ EntryRan
    /\ KPublished \in DOMAIN fmIn /\ ~WellFormedDate(fmIn[KPublished])
    /\ KRevision \notin DOMAIN fmIn /\ KTitle \notin DOMAIN fmIn
    /\ entryRet.err = ParseError(fmIn[KPublished])

August6 == <<"A","u","g","u","s","t"," ","6",","," ","1","9","8","7">>
ATitleFooBar == <<"A"," ","T","i","t","l","e"," ","F","o","o"," ","B","a","r">>

\* C4: an error comes with a nil Entry, and an Entry comes without an error
\* and with its five fields taken from the map.
C4_AtomicConstruction ==
    (EntryRan /\ ~entryRet.panic) =>
        /\ entryRet.err # NoErr => entryRet.entry = NilEntry
        /\ ~entryRet.entry.nil =>
               /\ entryRet.err = NoErr
               /\ {KPublished, KRevision, KTitle, KExcerpt} \subseteq DOMAIN fmIn
               /\ entryRet.entry.Filename = fmIn[KTitle]
               /\ entryRet.entry.Excerpt = fmIn[KExcerpt]
               /\ entryRet.entry.Title = ReplaceAll(
                      [i \in 1..Len(fmIn[KTitle]) |->
                          IF i = 1 \/ fmIn[KTitle][i - 1] = "-"
                          THEN ToUpper(fmIn[KTitle][i]) ELSE fmIn[KTitle][i]], "-", " ")
               /\ SubSeq(entryRet.entry.Published, Len(entryRet.entry.Published) - 3,
                         Len(entryRet.entry.Published)) = SubSeq(fmIn[KPublished], 1, 4)
               /\ SubSeq(entryRet.entry.Revision, Len(entryRet.entry.Revision) - 3,
                         Len(entryRet.entry.Revision)) = SubSeq(fmIn[KRevision], 1, 4)
               /\ fmIn[KPublished] = D1987 => entryRet.entry.Published = August6
               /\ fmIn[KRevision] = D1987 => entryRet.entry.Revision = August6

\* an entry that had three fields set when the fourth key was found absent
C4_Witness ==
    /\ EntryRan /\ ~entryRet.panic
    /\ fmIn = MkFrontMatter(D1987, D1987, TFooBar, Absent)
    /\ entryRet.err = Error("Missing excerpt in front matter")
    /\ entryRet.entry = NilEntry

\* C5: with the four keys present and both dates well-formed, any title
\* gives an Entry and no error: Filename is the title, Title its capitalized,
\* space-joined segments.
C5_AnyTitleAccepted ==
    (/\ EntryRan
     /\ DOMAIN fmIn = {KPublished, KRevision, KTitle, KExcerpt}
     /\ WellFormedDate(fmIn[KPublished]) /\ WellFormedDate(fmIn[KRevision])) =>
        /\ ~entryRet.panic
        /\ entryRet.err = NoErr
        /\ ~entryRet.entry.nil
        /\ entryRet.entry.Filename = fmIn[KTitle]
        /\ entryRet.entry.Title = Join(capitalized(fmIn[KTitle]), <<" ">>)

\* the scenario of the package's test: a-title-foo-bar
C5_Scenario ==
    (EntryRan /\ fmIn = MkFrontMatter(D1987, D1987, TFooBar, EBlah)) =>
        entryRet = EntryResult(HtmlEntry(TFooBar, ATitleFooBar, August6, August6, EBlah), NoErr)

-----------------------------------------------------------------------------
(* Properties of Publish and PublishAll *)

draftDirPath == filepathJoin(<<src, DraftDir>>)
publishedDirPath == filepathJoin(<<src, PublishedDir>>)

\* the regular files of a directory, by path
FilesIn(f, dir) == {q \in DOMAIN f : ~f[q].isDir /\ dirName(q) = dir}

\* what is on disk below entries/: the drafts and the published sources
Sources(f) == [q \in {q \in DOMAIN f : HasPrefix(q, src)} |-> f[q]]

Succeeded(t) == t.pc = "done" /\ t.err = NoErr

\* the value that the front matter of a source file carries for a key
FieldOf(f, path, key) == mapGet(readFrontMatter(f[path].lines).fm, key)

\* the title that the front matter of a source file carries
TitleField(f, path) == FieldOf(f, path, KTitle)

\* C6: once Publish(file) has returned nil, file is gone from draft/, a file
\* of the same base name is in published/, and pages/ has the .html file
\* named after the title field of that source.
C6_PublishMovesAndRenders ==
    \A p \in DOMAIN tasks :
        Succeeded(tasks[p]) =>
            /\ dirName(p) = draftDirPath
            /\ p \notin DOMAIN fs
            /\ isFile(fs, filepathJoin(<<publishedDirPath, baseName(p)>>))
            /\ isFile(fs, filepathJoin(<<dst,
                   TitleField(fs, filepathJoin(<<publishedDirPath, baseName(p)>>))
                   \o ExtHtml>>))

\* a Publish that returned nil for a draft whose title is not its file name
C6_Witness ==
    /\ draftPath(FileB) \in DOMAIN tasks
    /\ Succeeded(tasks[draftPath(FileB)])
    /\ TitleField(fs, filepathJoin(<<publishedDirPath, FileB>>)) = TitleA
    /\ isFile(fs, filepathJoin(<<dst, TitleA \o ExtHtml>>))

\* Publish returned an error that is not the error of the move
FailedBeforeMove(t) == t.pc = "done" /\ t.err \notin {NoErr, Error("rename")}

\* C7: a Publish that fails at parsing, validation or rendering has not
\* moved anything: none of its steps up to the failure changes a file below
\* entries/, and its source is still a file of draft/.
C7_FailureLeavesDraft ==
    [][\A p \in DOMAIN tasks' :
          /\ (/\ p \in DOMAIN tasks
              /\ tasks[p].pc \in {"parse", "create", "render"}
              /\ tasks'[p] # tasks[p])
                 => Sources(fs') = Sources(fs)
          /\ FailedBeforeMove(tasks'[p])
                 => isFile(fs', p) /\ dirName(p) = draftDirPath]_vars

\* a Publish whose template execution failed, the page half written
C7_Witness ==
    \E p \in DOMAIN tasks :
        /\ tasks[p].pc = "done" /\ tasks[p].err = Error("template: execute")
        /\ fs[tasks[p].page].state = "partial"
        /\ isFile(fs, p)

\* C8: a file of published/ stays a file of published/ in every step of
\* every command.
C8_PublishedIsTerminal ==
    [][fs' # fs =>
          \A q \in FilesIn(fs, publishedDirPath) : q \in DOMAIN fs' /\ ~fs'[q].isDir]_vars

\* a source published by the first run, still there after a second run that
\* created a draft of the same name
C8_Witness ==
    /\ runs = 2 /\ pc = "idle" /\ cmd = "draft" /\ exitCode = 0
    /\ isFile(fs, filepathJoin(<<publishedDirPath, FileA>>))
    /\ isFile(fs, draftPath(FileA))

\* C9: the Publish tasks of one PublishAll create and write pairwise
\* different page files, also when two drafts carry the same title.
C9_TasksWriteDisjointFiles ==
    \A p, q \in DOMAIN tasks :
        (p # q /\ tasks[p].page # <<>> /\ tasks[q].page # <<>>)
            => tasks[p].page # tasks[q].page

\* the regular .md files of draft/
DraftMdFiles(f) == {q \in FilesIn(f, draftDirPath) : HasSuffix(q, ExtMd)}

Finished(t) == t.pc \in {"done", "panicked"}

\* C10: PublishAll starts one Publish per regular .md file of draft/, the
\* counter counts the Publish calls that are still running, and
\* GenerateIndex starts only when every one of them is over.
C10_IndexAfterAllTasks ==
    cmd = "publish-all" =>
        /\ (pc = "pa_spawn" /\ DOMAIN tasks = {}) =>
               /\ SeqRange(drafts) = DraftMdFiles(fs)
               /\ Len(drafts) = Cardinality(DraftMdFiles(fs))
        /\ (Alive /\ pc # "pa_list") =>
               /\ DOMAIN tasks \subseteq SeqRange(drafts)
               /\ wg = Cardinality({p \in DOMAIN tasks : ~Finished(tasks[p])})
        /\ pc \in {"index", "feed"} =>
               /\ DOMAIN tasks = SeqRange(drafts)
               /\ \A p \in DOMAIN tasks : Finished(tasks[p])

\* GenerateIndex is about to run after two Publish tasks, one of which failed
C10_Witness ==
    /\ cmd = "publish-all" /\ pc = "index"
    /\ Cardinality(DOMAIN tasks) = 2
    /\ \E p \in DOMAIN tasks : Succeeded(tasks[p])
    /\ \E p \in DOMAIN tasks : tasks[p].pc = "done" /\ tasks[p].err # NoErr
    /\ isDirectory(fs, draftPath(DirD))

-----------------------------------------------------------------------------
(* The site specification: the publish-all and feed commands run on trees *)
(* whose published entries differ in revision date and in tags            *)

TagsEmpty == <<>>
TagsCommaGo == <<",", "g", "o">>
TitleZ == <<"z">>

\* a well-formed source with the given revision date and tags line
DocTagged(title, revision, tagsLine) ==
    << Delimiter, kv(KTitle, title), kv(KPublished, D1987), kv(KRevision, revision) >>
    \o tagsLine \o << kv(KExcerpt, EBlah), Delimiter, BodyLine >>

TagsLine(value) == << kv(KTags, value) >>
NoTagsLine == << >>

\* a published source and the page that Publish rendered from it
PublishedEntry(name, title, doc) ==
    { <<filepathJoin(<<src, PublishedDir, name>>), TextFile(doc)>>,
      <<pagePath(title),
        PageFile([NewHtmlEntry(readFrontMatter(doc).fm).entry
                     EXCEPT !.Body = blackfridayRun(BodyLine \o <<Newline>>)])>> }

SiteDraftConfigs ==
    { {}, {<<draftPath(FileA), TextFile(DocGood(TitleA, D1987))>>} }

SiteBConfigs ==
    { {} } \cup
    { PublishedEntry(FileB, TitleB, DocTagged(TitleB, x[1], x[2])) :
        x \in { <<D1987, TagsLine(TagsGo)>>, <<DLeap, TagsLine(TagsGo)>>,
                <<DLeap, TagsLine(TagsEmpty)>>, <<DLeap, TagsLine(TagsCommaGo)>> } }

SiteCConfigs ==
    { {} } \cup
    { PublishedEntry(FileC, TitleC, DocTagged(TitleC, x[1], x[2])) :
        x \in { <<DLeap, TagsLine(TagsGo)>>, <<D1987, NoTagsLine>>,
                <<DBadDate, TagsLine(TagsGo)>> } }

\* a feed left by an earlier build, with an item of an entry that is gone
StaleFeed ==
    FeedFile(<< Item(parseTitle(TitleZ), baseURL \o TitleZ \o ExtHtml, EBlah,
                     FormatDate(D1987).val) >>)

SiteFeedConfigs == { {}, {<<feedPath, StaleFeed>>} }

SiteFiles ==
    { FilesOf(BaseDirs \cup GoodTemplates \cup a \cup b \cup c \cup r) :
        a \in SiteDraftConfigs, b \in SiteBConfigs, c \in SiteCConfigs,
        r \in SiteFeedConfigs }

InitSite ==
    /\ fs \in SiteFiles
    /\ NoProcess
    /\ tieOrder \in TieOrders
    /\ NoServer
    /\ stream = <<>>
    /\ fmRet = NotRun
    /\ mdBody = BodyNotRead
    /\ fmIn = EmptyMap
    /\ entryRet = EntryNotRun

NextSite ==
    \/ StartPublishAll
    \/ StartFeed
    \/ PublishAllList
    \/ SpawnNext
    \/ PublishAllWait
    \/ ParseNext
    \/ CreateNext
    \/ RenderNext
    \/ MoveNext
    \/ GenerateIndex
    \/ FeedGenerate

SpecSite == InitSite /\ [][NextSite]_vars

-----------------------------------------------------------------------------
(* The server specification: requests with and without credentials *)

SampleUsers == {"", "Jose", "Pepe"}
SamplePasswords == {"", "Paquito1q2w3e4r", "NotTheRight1"}

SampleAuths ==
    {NoAuth} \cup {Auth(TRUE, u, w) : u \in SampleUsers, w \in SamplePasswords}

SamplePaths ==
    { AnalyticsPath, HealthCheckPath, FeedPath, RootPath, PreviewPrefix,
      PreviewPrefix \o draftPath(FileA), PreviewPrefix \o draftPath(FileB) }

SampleRequests == {Request(path, auth) : path \in SamplePaths, auth \in SampleAuths}

SampleEnvs ==
    { Env(mode, x[1], x[2]) :
        mode \in {"development", "production"},
        x \in { <<"", "">>, <<"Jose", "">>, <<"", "Paquito1q2w3e4r">>,
                <<"Jose", "Paquito1q2w3e4r">> } }

ServerFiles ==
    { FilesOf(BaseDirs \cup GoodTemplates \cup a \cup q) :
        a \in SiteDraftConfigs, q \in PublishedConfigs }

InitServer ==
    /\ fs \in ServerFiles
    /\ env \in SampleEnvs
    /\ request = NoRequest
    /\ response = NoResponse
    /\ NoProcess
    /\ tieOrder = "kept"
    /\ stream = <<>>
    /\ fmRet = NotRun
    /\ mdBody = BodyNotRead
    /\ fmIn = EmptyMap
    /\ entryRet = EntryNotRun

NextServer == \E req \in SampleRequests : Handle(req)

SpecServer == InitServer /\ [][NextServer]_vars

-----------------------------------------------------------------------------
(* The preview specification: the development server previews drafts *)
(* while the publish-all command publishes them                      *)

PreviewDraftAConfigs ==
    { {<<draftPath(FileA), TextFile(DocGood(TitleA, D1987))>>},
      {<<draftPath(FileA), TextFile(DocNoExcerpt(TitleA))>>} }

PreviewDraftBConfigs ==
    { {}, {<<draftPath(FileB), TextFile(DocGood(TitleDashB, DLeap))>>},
          {<<draftPath(FileB), TextFile(DocNoClose(TitleB))>>} }

PreviewFiles ==
    { FilesOf(BaseDirs \cup t \cup a \cup b \cup o) :
        t \in TemplateConfigs, a \in PreviewDraftAConfigs, b \in PreviewDraftBConfigs,
        o \in OtherDraftConfigs }

PreviewRequests ==
    { Request(PreviewPrefix \o draftPath(n), NoAuth) : n \in {FileA, FileB, DirD, FileC} }

InitPreview ==
    /\ fs \in PreviewFiles
    /\ env = Env("development", "Jose", "Paquito1q2w3e4r")
    /\ request = NoRequest
    /\ response = NoResponse
    /\ NoProcess
    /\ tieOrder = "kept"
    /\ stream = <<>>
    /\ fmRet = NotRun
    /\ mdBody = BodyNotRead
    /\ fmIn = EmptyMap
    /\ entryRet = EntryNotRun

PreviewNext == \E req \in PreviewRequests : Handle(req)

NextPreview ==
    \/ PreviewNext
    \/ StartPublishAll
    \/ PublishAllList
    \/ SpawnNext
    \/ PublishAllWait
    \/ ParseNext
    \/ CreateNext
    \/ RenderNext
    \/ MoveNext
    \/ Crash
    \/ GenerateIndex
    \/ FeedGenerate

SpecPreview == InitPreview /\ [][NextPreview]_vars

-----------------------------------------------------------------------------
(* Properties of the error reporting of the commands *)

\* C11: once the listing of draft/ has succeeded, PublishAll comes back with
\* nil, whichever of its Publish calls failed: the command goes on to
\* GenerateIndex and nothing ends the process before that.
C11_PublishAllReturnsNil ==
    [][(cmd = "publish-all" /\ pc = "pa_spawn" /\ pc' # "pa_spawn")
          => (pc' = "index" /\ exitCode' = NoExit)]_vars

\* C12: a command that has exited with code 0 ran no Publish that failed.
C12_ExitCodeReflectsFailure ==
    (pc = "idle" /\ exitCode = 0) => \A p \in DOMAIN tasks : Succeeded(tasks[p])

-----------------------------------------------------------------------------
(* Properties of the index *)

IndexWritten == isFile(fs, indexPath) /\ fs[indexPath].state = "index"
IndexLinks == fs[indexPath].list

\* C13: the links of a written index are in descending order of revision
\* date: of two adjacent links the first has no earlier date than the second
\* (dates compared as yyyy-mm-dd text).
C13_IndexDescending ==
    IndexWritten =>
        \A i \in 1..(Len(IndexLinks) - 1) :
            ~less(IndexLinks[i].Date, IndexLinks[i + 1].Date)

\* an index of three pages that the listing did not enumerate in date order
C13_Witness ==
    /\ IndexWritten
    /\ Len(IndexLinks) = 3
    /\ IndexLinks[1].Link = TitleB \o ExtHtml
    /\ less(IndexLinks[3].Date, IndexLinks[1].Date)

\* C14: two links of a written index that have the same revision date are in
\* the order of the page listing, which is the order of the file names.
C14_TiesInListingOrder ==
    IndexWritten =>
        \A i, j \in 1..Len(IndexLinks) :
            (i < j /\ IndexLinks[i].Date = IndexLinks[j].Date)
                => less(IndexLinks[i].Link, IndexLinks[j].Link)

\* what GenerateIndex writes when it is run on the tree f
IndexOutput(f) ==
    IndexFile(sortedByDate(collectLinks(f, ListPages(f), 1, <<>>).links, tieOrder))

\* C15: a GenerateIndex that succeeds leaves a tree on which GenerateIndex
\* writes the same index.html again, and a GenerateIndex that runs on an
\* index written for the same published set changes no file.
C15_IndexIdempotent ==
    [][(pc = "index" /\ pc' = "feed") =>
          /\ fs'[indexPath] = IndexOutput(fs')
          /\ (tasks = <<>> /\ IndexWritten) => fs' = fs]_vars

\* the second publish-all in a row has regenerated the index: the first one
\* published a.md, the second one found no draft
C15_Witness ==
    /\ runs = 2 /\ cmd = "publish-all" /\ pc = "feed" /\ tasks = <<>>
    /\ isFile(fs, filepathJoin(<<publishedDirPath, FileA>>))
    /\ IndexWritten /\ Len(IndexLinks) >= 2

\* the comma-separated segments of a tags value, none for an empty value
ExpectedTags(value) == IF value = <<>> THEN <<>> ELSE Split(value, Comma)

\* C16: every link of a written index carries the comma-separated segments
\* of the tags value of its source, and no tag when the value is empty or
\* the key is absent.
C16_TagsAreSegments ==
    IndexWritten =>
        \A i \in 1..Len(IndexLinks) :
            IndexLinks[i].Tags =
                ExpectedTags(FieldOf(fs, publishedEntryPath(IndexLinks[i].Link), KTags))

-----------------------------------------------------------------------------
(* Properties of the feed *)

\* the regular .md files of published/
PublishedMdFiles(f) == {q \in FilesIn(f, publishedDirPath) : HasSuffix(q, ExtMd)}

\* the feed item of a published source: title, link, excerpt, published date
ExpectedItem(f, path) ==
    Item(parseTitle(FieldOf(f, path, KTitle)),
         baseURL \o TrimSuffix(baseName(path), ExtMd) \o ExtHtml,
         FieldOf(f, path, KExcerpt),
         FormatDate(FieldOf(f, path, KPublished)).val)

\* C18: a feed generation that succeeds writes a feed whose items are those
\* of the .md files of published/ at that moment, one item per file and
\* nothing else: no item of a draft, no item of the feed that was there.
C18_FeedRebuilt ==
    [][(pc = "feed" /\ pc' = "idle" /\ exitCode' = 0) =>
          LET items == fs'[feedPath].list
          IN /\ fs'[feedPath].state = "feed"
             /\ Len(items) = Cardinality(PublishedMdFiles(fs))
             /\ \A q \in PublishedMdFiles(fs) :
                    \E i \in 1..Len(items) : items[i] = ExpectedItem(fs, q)]_vars

\* the feed command has rebuilt the feed of two published entries while a
\* draft was waiting in draft/
C18_Witness ==
    /\ cmd = "feed" /\ pc = "idle" /\ exitCode = 0
    /\ isFile(fs, draftPath(FileA))
    /\ Cardinality(PublishedMdFiles(fs)) = 2
    /\ fs[feedPath].state = "feed" /\ Len(fs[feedPath].list) = 2

-----------------------------------------------------------------------------
(* Properties of Preview and of the server *)

\* Publish(p) is over and failed at parsing, at validation or at loading the
\* templates
FailedBeforeRendering(t) ==
    \/ t.pc = "panicked"
    \/ /\ t.pc = "done"
       /\ t.err \notin {NoErr, Error("create"), Error("template: execute"), Error("rename")}

\* the last request was a preview of the draft p
PreviewedDraft(p) == response.ran = "preview" /\ request.path = PreviewPrefix \o p

\* C17: a preview request changes no file; Preview returns (an error or an
\* Entry) for every draft; it returns an error when Publish of the same
\* draft fails at parsing, validation or template loading, and when it
\* returns an Entry, Publish of the same draft does not fail at these stages
\* and renders that Entry.
C17_PreviewLikePublish ==
    [][/\ (request' # request \/ response' # response) => fs' = fs
       /\ \A p \in DOMAIN tasks' :
             (PreviewedDraft(p)' /\ tasks'[p].pc \in {"done", "panicked"}) =>
                 /\ ~response'.preview.panic
                 /\ FailedBeforeRendering(tasks'[p]) => response'.preview.err # NoErr
                 /\ response'.preview.err = NoErr =>
                        /\ ~FailedBeforeRendering(tasks'[p])
                        /\ response'.preview.entry = tasks'[p].entry]_vars

\* the credentials of the last request are there and grantPermission takes them
ValidCredentials ==
    /\ request.auth.ok
    /\ grantPermission(env, request.auth.username, request.auth.password)

\* C19: in development, a request below /preview/ without valid credentials
\* is answered 401 and the preview handler does not run.
C19_PreviewProtected ==
    (env.ENV = "development" /\ HasPrefix(request.path, PreviewPrefix) /\ ~ValidCredentials)
        => (response.status = StatusUnauthorized /\ response.ran # "preview")

\* C20: behind basicAuth (the /analytics route) the handler runs exactly when
\* the request has credentials that grantPermission accepts; every other
\* request gets 401 and the handler does not run, with the text 'This
\* endpoint requires authentication.' and a WWW-Authenticate header when it
\* has no credentials, with 'Bad credentials.' when it has wrong ones.
C20_BasicAuthGate ==
    request.path = AnalyticsPath =>
        IF ValidCredentials
        THEN response.ran = "analytics"
        ELSE /\ response.ran = "none"
             /\ response.status = StatusUnauthorized
             /\ IF request.auth.ok
                THEN response.body[1] = "Bad credentials."
                ELSE /\ response.body[1] = "This endpoint requires authentication."
                     /\ response.header = "Basic"

\* the right user with a wrong password was turned away
C20_Witness ==
    /\ request.path = AnalyticsPath
    /\ env.user = "Jose" /\ env.pass = "Paquito1q2w3e4r"
    /\ request.auth = Auth(TRUE, "Jose", "NotTheRight1")
    /\ response.status = StatusUnauthorized
    /\ response.body = <<"Bad credentials.", Newline>>
    /\ response.ran = "none"

\* the variables are both set and the credentials are the two values
BothSetAndEqual(e, username, password) ==
    /\ e.user # "" /\ e.pass # ""
    /\ username = e.user /\ password = e.pass

\* C21: grantPermission(user, pass) is true exactly when BASIC_AUTH_USER and
\* BASIC_AUTH_PASS are both set to non-empty values and user and pass are
\* these values; with one of them unset or empty it is false for every
\* (user, pass), the empty strings included. Seen behind basicAuth: a request
\* with credentials reaches the handler exactly in that case.
C21_GrantPermission ==
    /\ \A u \in SampleUsers, w \in SamplePasswords :
          grantPermission(env, u, w) <=> BothSetAndEqual(env, u, w)
    /\ (request.path = AnalyticsPath /\ request.auth.ok) =>
          /\ (response.ran = "analytics") <=>
                 BothSetAndEqual(env, request.auth.username, request.auth.password)
          /\ (env.user = "" \/ env.pass = "") => response.status = StatusUnauthorized

\* empty credentials were refused by a server whose variables are not set
C21_Witness ==
    /\ request.path = AnalyticsPath
    /\ env.user = "" /\ env.pass = ""
    /\ request.auth = Auth(TRUE, "", "")
    /\ response.status = StatusUnauthorized
    /\ response.body = <<"Bad credentials.", Newline>>

-----------------------------------------------------------------------------
(* Properties of the parser's errors and of the body *)

\* line k comes after the opening delimiter and no delimiter line lies
\* between the two: it is a line of the opened block
InOpenedBlock(lines, k) ==
    /\ HasOpening(lines)
    /\ k \in (OpeningIdx(lines) + 1)..Len(lines)
    /\ \A j \in (OpeningIdx(lines) + 1)..k : ~IsDelimiterLine(lines[j])

\* some line of the opened block, before any closing delimiter, has no ':'
HasLineWithoutColon(lines) ==
    \E k \in 1..Len(lines) : InOpenedBlock(lines, k) /\ Index(lines[k], Colon) = 0

\* C22: a line of the opened block that has no ':' (a blank line included)
\* and comes before the closing delimiter makes readFrontMatter return the
\* error 'invalid front matter key-value pair' and a nil map.
C22_LineWithoutColonFails ==
    (Parsed /\ HasLineWithoutColon(stream)) =>
        /\ fmRet.err = Error("invalid front matter key-value pair")
        /\ fmRet.nil

\* a blank line between two key-value lines of a block that is closed later
C22_Witness ==
    /\ Parsed /\ HasClosing(stream)
    /\ \E k \in BlockIdx(stream) :
          /\ stream[k] = LBlank
          /\ k - 1 \in BlockIdx(stream) /\ k + 1 \in BlockIdx(stream)
          /\ Index(stream[k - 1], Colon) # 0 /\ Index(stream[k + 1], Colon) # 0
    /\ fmRet.err = Error("invalid front matter key-value pair")
    /\ fmRet.nil

\* the scan comes to the end of the stream before it has read a closing
\* delimiter: there is none, and no line ends the scan earlier
ScanReachesEnd(lines) == ~HasClosing(lines) /\ ~HasLineWithoutColon(lines)

\* C23: when the stream ends before readFrontMatter has read a closing
\* delimiter (no delimiter at all, or only the opening one), it returns 'no
\* content found' and a nil map, whatever key-value lines it had read.
C23_UnclosedIsNoContent ==
    (Parsed /\ ScanReachesEnd(stream)) =>
        /\ fmRet.err = Error("no content found")
        /\ fmRet.nil

\* an opened block of key-value lines that the end of the stream cuts off
C23_Witness ==
    /\ Parsed /\ HasOpening(stream) /\ ~HasClosing(stream)
    /\ Len(stream) >= OpeningIdx(stream) + 2
    /\ ~HasLineWithoutColon(stream)
    /\ fmRet.err = Error("no content found")
    /\ fmRet.nil

\* the lines after the closing delimiter
AfterClosing(lines) == SubSeq(lines, ClosingIdx(lines) + 1, Len(lines))

\* the bytes of a sequence of lines, one newline after each
BytesOf(lines) == IF lines = <<>> THEN <<>> ELSE Join(lines, <<Newline>>) \o <<Newline>>

BodyRead == mdBody # BodyNotRead

\* C24: the body that ParseMd returns is the lines after the closing
\* delimiter, in order and as they are, each followed by one newline; none of
\* them is taken as a key-value pair or as a delimiter, so the front matter
\* is the mapping of the block alone.
C24_BodyIsTheRest ==
    BodyRead =>
        /\ WellFormedBlock(stream)
        /\ ~mdBody.nil
        /\ mdBody.bytes = BytesOf(AfterClosing(stream))
        /\ fmRet.fm = BlockMap(stream, TrimmedKey)

\* a body with a '---' line and with a line that gives another value to a
\* key of the block
C24_Witness ==
    /\ BodyRead
    /\ \E k, m \in (ClosingIdx(stream) + 1)..Len(stream) :
          /\ IsDelimiterLine(stream[k])
          /\ Index(stream[m], Colon) # 0
          /\ TrimmedKey(stream[m]) \in DOMAIN fmRet.fm
          /\ fmRet.fm[TrimmedKey(stream[m])] # LineValue(stream[m])
    /\ Len(mdBody.bytes) > Len(AfterClosing(stream))

-----------------------------------------------------------------------------
(* Properties of the messages of NewHtmlEntry *)

\* the messages that TestNewHTMLEntry compares the error against
TestedMessage ==
    <<"missing publish date in front matter", "missing revision date in front matter",
      "missing title in front matter", "missing excerpt in front matter">>

\* the first absent key is reached: the dates before it are well-formed and
\* the title before it has no empty segment
FirstAbsentReached(fm) ==
    /\ SomeKeyAbsent(fm)
    /\ EarlierDatesWellFormed(fm)
    /\ (FirstAbsent(fm) = 4) => ~parseTitlePanics(fm[KTitle])

\* C25: the error that NewHtmlEntry returns for an absent required key has
\* exactly the message of the test table: 'missing publish date in front
\* matter', 'missing revision date in front matter', 'missing title in front
\* matter', 'missing excerpt in front matter'.
C25_MessagesAsTested ==
    (EntryRan /\ FirstAbsentReached(fmIn)) =>
        entryRet.err.msg = TestedMessage[FirstAbsent(fmIn)]

-----------------------------------------------------------------------------
(* Properties of the output directory *)

\* C26: whenever no command is running, every .html page of the output
\* directory other than index.html has its Markdown source, the file of the
\* same base name, in published/.
C26_PagesHaveSources ==
    pc = "idle" =>
        \A i \in 1..Len(ListPages(fs)) : isFile(fs, publishedEntryPath(ListPages(fs)[i]))

\* Publish(p) has called os.Create on a page of the output directory: the
\* file is new, or the page that was there is truncated
CreatedPage(t) == t.page # <<>>

\* C27: a Publish that returned an error of parsing, validation, template
\* loading or template execution has left the output directory as it was: it
\* has created, truncated or written no page.
C27_FailureLeavesOutput ==
    \A p \in DOMAIN tasks :
        FailedBeforeMove(tasks[p]) => ~CreatedPage(tasks[p])

\* the file name at the end of the link of a feed item
LinkedFile(item) == TrimPrefix(item.Link, baseURL)

\* C28: every item of a feed that has just been generated links to the file
\* that Publish wrote for its entry: the file name of the link, which comes
\* from the name of the Markdown source, is the name of the page, which
\* comes from the title of the front matter.
C28_FeedLinksArePages ==
    [][(pc = "feed" /\ pc' = "idle" /\ exitCode' = 0) =>
          \A i \in 1..Len(fs'[feedPath].list) :
              LET name == LinkedFile(fs'[feedPath].list[i])
              IN /\ isFile(fs, publishedEntryPath(name))
                 /\ pagePath(TitleField(fs, publishedEntryPath(name)))
                        = filepathJoin(<<dst, name>>)]_vars

\* the feed on disk was generated from the published directory as it is now:
\* it holds one item per source and the item of every source
FeedIsCurrent(f) ==
    /\ isFile(f, feedPath) /\ f[feedPath].state = "feed"
    /\ Len(f[feedPath].list) = Cardinality(PublishedMdFiles(f))
    /\ \A q \in PublishedMdFiles(f) :
          \E i \in 1..Len(f[feedPath].list) : f[feedPath].list[i] = ExpectedItem(f, q)

\* C29: a feed generation that runs on the published directory from which
\* the feed on disk was generated writes the items in the same order again.
C29_FeedOrderDeterministic ==
    [][(pc = "feed" /\ pc' = "idle" /\ exitCode' = 0 /\ FeedIsCurrent(fs)) =>
          fs'[feedPath].list = fs[feedPath].list]_vars

-----------------------------------------------------------------------------
(* The termination specification: publish-all on drafts that parse, fail or *)
(* panic, every goroutine and the run-time being scheduled again and again  *)

InitTermination ==
    /\ fs \in PreviewFiles
    /\ NoProcess
    /\ tieOrder = "kept"
    /\ NoServer
    /\ stream = <<>>
    /\ fmRet = NotRun
    /\ mdBody = BodyNotRead
    /\ fmIn = EmptyMap
    /\ entryRet = EntryNotRun

NextTermination ==
    \/ StartPublishAll
    \/ PublishAllList
    \/ SpawnNext
    \/ PublishAllWait
    \/ ParseNext
    \/ CreateNext
    \/ RenderNext
    \/ MoveNext
    \/ Crash
    \/ GenerateIndex
    \/ FeedGenerate

\* a step of the running process: of its main goroutine, of one of the
\* goroutines of PublishAll, or of the run-time that ends it after a panic
ProcessStep ==
    \/ PublishAllList
    \/ SpawnNext
    \/ PublishAllWait
    \/ ParseNext
    \/ CreateNext
    \/ RenderNext
    \/ MoveNext
    \/ Crash
    \/ GenerateIndex
    \/ FeedGenerate

\* some step of the process can be taken: the guards of the steps, every one
\* of which goes on to assign all the variables
CanStep ==
    \/ pc \in {"pa_list", "index", "feed"}
    \/ /\ pc = "pa_spawn"
       /\ \E id \in 1..MaxAnswer : id \in DOMAIN drafts /\ drafts[id] \notin DOMAIN tasks
    \/ /\ pc = "pa_spawn"
       /\ SeqRange(drafts) \subseteq DOMAIN tasks /\ waitReleased(wg)
    \/ /\ Alive
       /\ \E p \in TaskPaths \cap DOMAIN tasks :
             tasks[p].pc \in {"parse", "create", "render", "move"}
    \/ /\ Alive
       /\ pc = "panic" \/ \E p \in DOMAIN tasks : tasks[p].pc = "panicked"

\* the Go scheduler does not leave a process that can take a step idle for
\* ever (weak fairness of ProcessStep, its enabling condition written out),
\* the main goroutine is scheduled again when the wait is released, and the
\* run-time ends a process in which a panic was not recovered
Scheduling ==
    /\ ([]<>(~CanStep) \/ []<><<ProcessStep>>_vars)
    /\ WF_vars(PublishAllWait)
    /\ WF_vars(Crash)

SpecTermination == InitTermination /\ [][NextTermination]_vars /\ Scheduling

\* PublishAll has listed the drafts and has not returned
InPublishAll == cmd = "publish-all" /\ pc = "pa_spawn"

\* C30: a PublishAll that has listed the drafts returns in the end, whatever
\* its Publish calls do: the wait is released and the command, the same
\* process, goes on to GenerateIndex.
C30_PublishAllReturns ==
    \A n \in 1..MaxRuns : (InPublishAll /\ runs = n) ~> (pc = "index" /\ runs = n)

====
